---- MODULE Spec2Model ----
(***************************************************************************)
(* State-machine model of the debugging broker.                            *)
(*                                                                         *)
(* The repository holds two stacks of the broker:                          *)
(*   - the WebSocket stack: WebSocketClient (the command correlator) and   *)
(*     the SessionManager that owns it (connect / disconnect /             *)
(*     handleSessionEvent, URL admission, session cap);                    *)
(*   - the CDP stack: CDPClient (a wrapper of chrome-remote-interface) and *)
(*     the SessionManager that owns it (createSession / destroySession /   *)
(*     setupSessionEventHandlers and the debugging operations).            *)
(*                                                                         *)
(* An await is modelled as a position of the call: the step that delivers  *)
(* the awaited outcome also runs the continuation up to the next await.    *)
(* Target events and responses are delivered one at a time while the       *)
(* transport is open.                                                      *)
(***************************************************************************)
EXTENDS Integers, Sequences, FiniteSets, TLC

(* ------------------------------ bounds --------------------------------- *)
\* commands one WebSocketClient allocates in a run
MaxCmds == 3
\* connect calls (each creates one session id) of the WebSocket stack
NumConnects == 2
\* Debugger.paused events one target emits in a run
MaxPauses == 2
\* configured maxConcurrentSessions of the modelled deployment
maxConcurrentSessions == 1

\* breakpoint locations a run uses; the target derives the breakpoint id
\* from the location, so these are the breakpoint ids as well
MaxBp == 2
\* Debugger.breakpointResolved events one target emits in a run
MaxResolved == 2

WsIds == 1..NumConnects
BpIds == 1..MaxBp
\* resolved locations an event or a response can carry
Locs == {1, 2}
CmdIds == 1..MaxCmds

(* --------------------------- SessionState ------------------------------ *)
CONNECTING == "connecting"
CONNECTED == "connected"
PAUSED == "paused"
RUNNING == "running"
DISCONNECTED == "disconnected"
SessionState == {CONNECTING, CONNECTED, PAUSED, RUNNING, DISCONNECTED}
LiveStates == {CONNECTED, PAUSED, RUNNING}

(* ----------------------------- ErrorCode ------------------------------- *)
SESSION_NOT_FOUND == "SESSION_NOT_FOUND"
SESSION_INVALID_STATE == "SESSION_INVALID_STATE"
CONNECTION_FAILED == "CONNECTION_FAILED"
PROTOCOL_ERROR == "PROTOCOL_ERROR"
INVALID_PARAMETERS == "INVALID_PARAMETERS"
TIMEOUT == "TIMEOUT"
MAX_SESSIONS_REACHED == "MAX_SESSIONS_REACHED"
BREAKPOINT_NOT_FOUND == "BREAKPOINT_NOT_FOUND"
SCRIPT_NOT_FOUND == "SCRIPT_NOT_FOUND"

(* ------------------------- URL admission ------------------------------- *)
\* target URLs a caller may pass to connect_debugger
Urls == {"ws://localhost:9229/t", "wss://127.0.0.1:9229/t", "ws://[::1]:9229/t",
         "WS://LOCALHOST:9229/t", "ws://example.com:9229/t",
         "http://localhost:9229/t", "file:///etc/passwd", "localhost:9229", "not a url"}

\* new URL(url): throws on a string that is not an absolute URL; protocol
\* and hostname are lower-cased, an IPv6 hostname keeps its brackets.
ParseUrl(u) ==
  CASE u = "ws://localhost:9229/t"   -> [ok |-> TRUE, protocol |-> "ws:", hostname |-> "localhost"]
    [] u = "wss://127.0.0.1:9229/t"  -> [ok |-> TRUE, protocol |-> "wss:", hostname |-> "127.0.0.1"]
    [] u = "ws://[::1]:9229/t"       -> [ok |-> TRUE, protocol |-> "ws:", hostname |-> "[::1]"]
    [] u = "WS://LOCALHOST:9229/t"   -> [ok |-> TRUE, protocol |-> "ws:", hostname |-> "localhost"]
    [] u = "ws://example.com:9229/t" -> [ok |-> TRUE, protocol |-> "ws:", hostname |-> "example.com"]
    [] u = "http://localhost:9229/t" -> [ok |-> TRUE, protocol |-> "http:", hostname |-> "localhost"]
    [] u = "file:///etc/passwd"      -> [ok |-> TRUE, protocol |-> "file:", hostname |-> ""]
    [] u = "localhost:9229"          -> [ok |-> TRUE, protocol |-> "localhost:", hostname |-> ""]
    [] OTHER                         -> [ok |-> FALSE, protocol |-> "", hostname |-> ""]

allowedHosts == {"localhost", "127.0.0.1", "::1"}

\* SessionManager.validateTargetUrl: "ok" or the error code it throws
validateTargetUrl(u, requireConfirmation) ==
  LET p == ParseUrl(u) IN
  IF ~p.ok THEN INVALID_PARAMETERS
  ELSE IF p.protocol # "ws:" /\ p.protocol # "wss:" THEN INVALID_PARAMETERS
  ELSE IF ~(p.hostname \in allowedHosts) /\ requireConfirmation THEN INVALID_PARAMETERS
  ELSE "ok"

(* ============================== state ================================== *)
\* the CDP stack
VARIABLES
  cdpClient,   \* CDPClient: client, connected, and the library's transport
  session,     \* ManagedSession: state, pausedState (0: undefined)
  sessions,    \* SessionManager.sessions: the ids installed in the registry
  creating,    \* the createSession call: its position, url and result
  calls,       \* the operation calls made so far: their position and result
  sent         \* the commands written to the target, in order

cdpVars == <<cdpClient, session, sessions, creating, calls, sent>>

\* the WebSocket stack
VARIABLES
  wsClient,       \* [WsIds -> WebSocketClient]: the correlator of each session
  debugSession,   \* [WsIds -> DebugSession]: state, pausedState, call results
  debugSessions,  \* SessionManager.sessions: the ids installed in the registry
  requireConfirmationForRemote  \* config.requireConfirmationForRemote

wsVars == <<wsClient, debugSession, debugSessions, requireConfirmationForRemote>>

\* A WebSocketClient before connect().  readyState is the socket's state
\* ("NONE" before new WebSocket); timers are the armed command timeouts;
\* wire is what was written to the socket, in order;
\* signals[id] lists the calls of resolve/reject of command id's promise;
\* answered and pauses/tgtPaused describe what the target has done.
NewWsClient ==
  [ws |-> FALSE, readyState |-> "NONE", isConnected |-> FALSE, commandId |-> 1,
   pendingCommands |-> {}, timers |-> {}, connTimer |-> FALSE, promise |-> "none",
   wire |-> <<>>, signals |-> [i \in CmdIds |-> <<>>],
   answered |-> {}, pauses |-> 0, tgtPaused |-> FALSE, opens |-> 0,
   arg |-> [i \in CmdIds |-> 0], tgtBps |-> {}, resolves |-> 0, threw |-> {},
   dropped |-> 0]

\* A session id no connect() call has used yet.  op, opState and opResult
\* describe the latest operation invoked on the session: what it was, the
\* state it found, and how it ended ("pending" while it awaits its command)
NewDebugSession ==
  [state |-> "none", pausedState |-> 0, url |-> "", result |-> "none",
   op |-> "none", opState |-> "none", opResult |-> "none",
   bpIds |-> {}, bpLocs |-> [b \in BpIds |-> <<>>]]

World(s) == [c |-> wsClient[s], d |-> debugSession[s], reg |-> debugSessions]

Commit(s, w) ==
  /\ wsClient' = [wsClient EXCEPT ![s] = w.c]
  /\ debugSession' = [debugSession EXCEPT ![s] = w.d]
  /\ debugSessions' = w.reg
  /\ UNCHANGED <<requireConfirmationForRemote, cdpVars>>

(* --------------------- WebSocketClient (correlator) -------------------- *)
\* guard of sendCommand: this.ws && this.isConnected
CanSend(c) == c.ws /\ c.isConnected

\* variant: the id is taken from the size of the pending table, not from the counter
sendCommand_reuseId(c, method) ==
  LET id == Cardinality(c.pendingCommands) + 1 IN
  [c EXCEPT !.commandId = @ + 1,
            !.timers = @ \cup {id},
            !.pendingCommands = @ \cup {id},
            !.wire = Append(@, [id |-> id, method |-> method])]

\* variant: no timeout is armed for the command
sendCommand_noTimeout(c, method) ==
  LET id == c.commandId IN
  [c EXCEPT !.commandId = @ + 1,
            !.pendingCommands = @ \cup {id},
            !.wire = Append(@, [id |-> id, method |-> method])]

\* sendCommand past its guard: allocate the id, arm the timeout, add the
\* pending entry, write the message
sendCommand(c, method) ==
  LET id == c.commandId IN
  [c EXCEPT !.commandId = @ + 1,
            !.timers = @ \cup {id},
            !.pendingCommands = @ \cup {id},
            !.wire = Append(@, [id |-> id, method |-> method])]

\* sendCommand with params: arg[id] is the breakpoint the command names
sendCommandWith(c, method, b) ==
  [sendCommand(c, method) EXCEPT !.arg[c.commandId] = b]

\* connect()'s promise is settled by the first resolve/reject only; the
\* awaiting SessionManager.connect then installs the session
ResolveConnect(w, s) ==
  IF w.c.promise # "pending" THEN w
  ELSE [w EXCEPT !.c.promise = "resolved",
                 !.d.state = CONNECTED,
                 !.reg = @ \cup {s},
                 !.d.result = "ok"]

\* ... or marks it DISCONNECTED and rethrows the error
RejectConnect(w, s, code) ==
  IF w.c.promise # "pending" THEN w
  ELSE [w EXCEPT !.c.promise = "rejected",
                 !.d.state = DISCONNECTED,
                 !.d.result = code]

\* WebSocketClient.disconnect after its Debugger.disable settled, and the
\* rest of SessionManager.disconnect.  this.ws is null when an overlapping
\* disconnect has already run: this.ws.close() then throws a TypeError.
DisconnectCont(w, s) ==
  IF ~w.c.ws THEN [w EXCEPT !.d.opResult = "TypeError"]
  ELSE [w EXCEPT !.c.readyState = IF @ \in {"CONNECTING", "OPEN"} THEN "CLOSING" ELSE @,
                 !.c.ws = FALSE,
                 !.c.isConnected = FALSE,
                 !.d.state = DISCONNECTED,
                 !.reg = @ \ {s},
                 !.d.opResult = "ok"]

\* the method of the (latest) command written with this id
MethodOf(c, id) ==
  LET is == {i \in 1..Len(c.wire) : c.wire[i].id = id}
  IN c.wire[CHOOSE i \in is : \A j \in is : j <= i].method

\* setBreakpoint after its command resolved: the record is stored under the
\* id of the response, with the locations of the response (none yet)
setBreakpointStore(w, b) ==
  [w EXCEPT !.d.bpIds = @ \cup {b}, !.d.bpLocs[b] = <<>>, !.d.opResult = "result"]

\* setVariableValue after its Debugger.evaluateOnCallFrame resolved: the
\* second sendCommand, with newValue {value: evalResult.result.value}
setVariableValueSend(w) ==
  IF ~CanSend(w.c) THEN [w EXCEPT !.d.opResult = CONNECTION_FAILED]
  ELSE [w EXCEPT !.c = sendCommand(w.c, "Debugger.setVariableValue")]

\* removeBreakpoint after its command resolved
removeBreakpointDelete(w, b) ==
  [w EXCEPT !.d.bpIds = @ \ {b}, !.d.bpLocs[b] = <<>>, !.d.opResult = "result"]

\* What the caller awaiting command id does when its promise settles
Settled(w, s, id, out) ==
  LET m == MethodOf(w.c, id) IN
  CASE m = "Debugger.enable" ->
         IF out = "result" THEN ResolveConnect(w, s) ELSE RejectConnect(w, s, out)
    [] m = "Debugger.disable" -> DisconnectCont(w, s)
    [] m = "Debugger.setBreakpointByUrl" /\ out = "result" ->
         setBreakpointStore(w, w.c.arg[id])
    [] m = "Debugger.removeBreakpoint" /\ out = "result" ->
         removeBreakpointDelete(w, w.c.arg[id])
    [] m = "Debugger.evaluateOnCallFrame" /\ out = "result" ->
         setVariableValueSend(w)
    [] OTHER -> [w EXCEPT !.d.opResult = out]

\* resolve/reject of command id's promise: every call is a signal, only the
\* first settles the promise and wakes the caller
Signal(w, s, id, out) ==
  LET first == w.c.signals[id] = <<>>
      w1 == [w EXCEPT !.c.signals[id] = Append(@, out)]
  IN IF first THEN Settled(w1, s, id, out) ELSE w1

RECURSIVE SignalAll(_, _, _, _)
SignalAll(w, s, ids, out) ==
  IF ids = {} THEN w
  ELSE LET id == CHOOSE i \in ids : \A j \in ids : i <= j
       IN SignalAll(Signal(w, s, id, out), s, ids \ {id}, out)

\* variant: the response branch without clearTimeout
handleResponse_keepTimer(c, id) ==
  [c EXCEPT !.pendingCommands = @ \ {id}, !.answered = @ \cup {id}]

\* handleMessage, response branch, for a pending id: clearTimeout and delete
handleResponse(c, id) ==
  [c EXCEPT !.timers = @ \ {id}, !.pendingCommands = @ \ {id}, !.answered = @ \cup {id}]

\* variant: clear() without the clearTimeout of every entry
rejectAllPendingCommands_keepTimers(c) ==
  [c EXCEPT !.pendingCommands = {}]

\* rejectAllPendingCommands: clearTimeout of every entry, then clear()
rejectAllPendingCommands(c) ==
  [c EXCEPT !.timers = @ \ c.pendingCommands, !.pendingCommands = {}]

\* handleSessionEvent, case "disconnected"
handleDisconnected(w, s) ==
  [w EXCEPT !.d.state = DISCONNECTED, !.reg = @ \ {s}]

(* ------------------ actions of the WebSocket stack --------------------- *)
\* SessionManager.connect up to its await of wsClient.connect(), which runs
\* up to new WebSocket(url)
Connect(s, u) ==
  /\ debugSession[s].state = "none"
  /\ LET v == validateTargetUrl(u, requireConfirmationForRemote) IN
     IF v # "ok"
     THEN /\ debugSession' = [debugSession EXCEPT ![s].state = "rejected", ![s].url = u,
                                                  ![s].result = v]
          /\ UNCHANGED <<wsClient, debugSessions, requireConfirmationForRemote, cdpVars>>
     ELSE IF Cardinality(debugSessions) >= maxConcurrentSessions
     THEN /\ debugSession' = [debugSession EXCEPT ![s].state = "rejected", ![s].url = u,
                                                  ![s].result = MAX_SESSIONS_REACHED]
          /\ UNCHANGED <<wsClient, debugSessions, requireConfirmationForRemote, cdpVars>>
     ELSE /\ debugSession' = [debugSession EXCEPT ![s].state = CONNECTING, ![s].url = u,
                                                  ![s].result = "pending"]
          /\ wsClient' = [wsClient EXCEPT ![s].ws = TRUE, ![s].readyState = "CONNECTING",
                                          ![s].connTimer = TRUE, ![s].promise = "pending",
                                          ![s].opens = @ + 1]
          /\ UNCHANGED <<debugSessions, requireConfirmationForRemote, cdpVars>>

\* ws.on("open"): clear the connection timer, mark connected, send
\* Debugger.enable and await it
WsOpen(s) ==
  /\ wsClient[s].readyState = "CONNECTING"
  /\ LET c1 == [wsClient[s] EXCEPT !.readyState = "OPEN", !.connTimer = FALSE,
                                   !.isConnected = TRUE]
     IN Commit(s, [World(s) EXCEPT !.c = sendCommand(c1, "Debugger.enable")])

\* ws.on("error") while connecting: the socket fails and will emit close
WsError(s) ==
  /\ wsClient[s].readyState = "CONNECTING"
  /\ LET w1 == [World(s) EXCEPT !.c.readyState = "CLOSING", !.c.connTimer = FALSE]
     IN Commit(s, IF ~w1.c.isConnected THEN RejectConnect(w1, s, CONNECTION_FAILED) ELSE w1)

\* the connection timer of connect() fires: terminate the socket, reject
ConnectTimeout(s) ==
  /\ wsClient[s].connTimer
  /\ LET w1 == [World(s) EXCEPT !.c.connTimer = FALSE,
                  !.c.readyState = IF wsClient[s].ws /\ @ \in {"CONNECTING", "OPEN"}
                                   THEN "CLOSING" ELSE @]
     IN Commit(s, RejectConnect(w1, s, TIMEOUT))

\* the target carries out command id when it answers it with a result: it
\* then holds, or no longer holds, the breakpoint the command names
TargetActs(c, id) ==
  LET m == MethodOf(c, id) IN
  CASE m = "Debugger.setBreakpointByUrl" -> [c EXCEPT !.tgtBps = @ \cup {c.arg[id]}]
    [] m = "Debugger.removeBreakpoint" -> [c EXCEPT !.tgtBps = @ \ {c.arg[id]}]
    [] OTHER -> c

\* variant: the response branch without the lookup in the pending table
HandleResponse_noLookup(s, id, isError) ==
  /\ wsClient[s].readyState = "OPEN"
  /\ \E i \in 1..Len(wsClient[s].wire) : wsClient[s].wire[i].id = id
  /\ id \notin wsClient[s].answered
  /\ LET c0 == IF isError THEN wsClient[s] ELSE TargetActs(wsClient[s], id) IN
     Commit(s, Signal([World(s) EXCEPT !.c = handleResponse(c0, id)],
                      s, id, IF isError THEN PROTOCOL_ERROR ELSE "result"))

\* ws.on("message") with a response to command id (result or error); the
\* target answers a command once, possibly after its timeout
HandleResponse(s, id, isError) ==
  /\ wsClient[s].readyState = "OPEN"
  /\ \E i \in 1..Len(wsClient[s].wire) : wsClient[s].wire[i].id = id
  /\ id \notin wsClient[s].answered
  /\ LET c0 == IF isError THEN wsClient[s] ELSE TargetActs(wsClient[s], id) IN
     IF id \in c0.pendingCommands
     THEN Commit(s, Signal([World(s) EXCEPT !.c = handleResponse(c0, id)],
                           s, id, IF isError THEN PROTOCOL_ERROR ELSE "result"))
     ELSE Commit(s, [World(s) EXCEPT !.c = [c0 EXCEPT !.answered = @ \cup {id}]])

\* ws.on("message") with the result of a Debugger.evaluateOnCallFrame whose
\* evaluation threw: a result response that reports the exception
WsRespondException(s, id) ==
  /\ wsClient[s].readyState = "OPEN"
  /\ \E i \in 1..Len(wsClient[s].wire) : wsClient[s].wire[i].id = id
  /\ MethodOf(wsClient[s], id) = "Debugger.evaluateOnCallFrame"
  /\ id \notin wsClient[s].answered
  /\ LET c0 == [wsClient[s] EXCEPT !.threw = @ \cup {id}] IN
     IF id \in c0.pendingCommands
     THEN Commit(s, Signal([World(s) EXCEPT !.c = handleResponse(c0, id)], s, id, "result"))
     ELSE Commit(s, [World(s) EXCEPT !.c = [c0 EXCEPT !.answered = @ \cup {id}]])

\* the timeout callback of sendCommand: delete the entry and reject
CommandTimeout(s, id) ==
  /\ id \in wsClient[s].timers
  /\ Commit(s, Signal([World(s) EXCEPT !.c.timers = @ \ {id},
                                       !.c.pendingCommands = @ \ {id}],
                      s, id, TIMEOUT))

\* ws.on("close"): the transport ended (the target end closed it, or a local
\* close()/terminate() completed)
WsClose(s) ==
  /\ wsClient[s].readyState \in {"OPEN", "CLOSING"}
  /\ LET c0 == wsClient[s]
         c1 == [rejectAllPendingCommands(c0) EXCEPT !.readyState = "CLOSED",
                                                    !.isConnected = FALSE]
         w1 == handleDisconnected([World(s) EXCEPT !.c = c1], s)
     IN Commit(s, SignalAll(w1, s, c0.pendingCommands, CONNECTION_FAILED))

\* ws.on("message") with Debugger.paused -> handleSessionEvent "paused"
WsPaused(s) ==
  /\ wsClient[s].readyState = "OPEN"
  /\ wsClient[s].pauses < MaxPauses
  /\ ~wsClient[s].tgtPaused
  /\ Commit(s, [World(s) EXCEPT !.c.pauses = @ + 1, !.c.tgtPaused = TRUE,
                                !.d.state = PAUSED,
                                !.d.pausedState = wsClient[s].pauses + 1])

\* ws.on("message") with Debugger.resumed -> handleSessionEvent "resumed"
WsResumed(s) ==
  /\ wsClient[s].readyState = "OPEN"
  /\ wsClient[s].tgtPaused
  /\ Commit(s, [World(s) EXCEPT !.c.tgtPaused = FALSE,
                                !.d.state = RUNNING,
                                !.d.pausedState = 0])

\* frames a session receives that are neither a response nor one of the
\* four notifications
MaxDropped == 2

\* Such a frame: text that is not JSON, JSON that is no object (JSON.parse
\* succeeds and reading message.id throws), a notification of another
\* method, an object with neither id nor method
DroppedFrames == {"notJson", "notObject", "otherMethod", "noIdNoMethod"}

\* variant: a frame that cannot be decoded fails the pending commands
handleMessage_failPending(w, frame) ==
  IF frame \in {"notJson", "notObject"}
  THEN [w EXCEPT !.c = rejectAllPendingCommands(@)] ELSE w

\* WebSocketClient.handleMessage for such a frame: the catch block logs the
\* error of JSON.parse or of the property read; handleEvent's switch has no
\* case for the method; a message without id and method matches no branch
handleMessage(w, frame) ==
  CASE frame \in {"notJson", "notObject"} -> w
    [] frame = "otherMethod" -> w
    [] OTHER -> w

\* ws.on("message") with such a frame (dropped counts them)
WsFrameDropped(s, frame) ==
  /\ wsClient[s].readyState = "OPEN"
  /\ wsClient[s].dropped < MaxDropped
  /\ Commit(s, [handleMessage(World(s), frame) EXCEPT !.c.dropped = @ + 1])

\* the states requireState allows for each single-command operation
\* (resume, pause, evaluateExpression without a call frame)
WsOps == {"Debugger.resume", "Debugger.pause", "Runtime.evaluate"}
AllowedStates(m) ==
  CASE m = "Debugger.resume" -> {PAUSED}
    [] m = "Debugger.pause" -> {CONNECTED, RUNNING}
    [] OTHER -> SessionState \cup {"none", "rejected"}

\* resume / pause / evaluateExpression: getSession, requireState, sendCommand
WsOp(s, m) ==
  /\ debugSession[s].state # "none"
  /\ wsClient[s].commandId <= MaxCmds
  /\ LET w == [World(s) EXCEPT !.d.op = m, !.d.opState = debugSession[s].state] IN
     IF s \notin debugSessions
     THEN Commit(s, [w EXCEPT !.d.opResult = SESSION_NOT_FOUND])
     ELSE IF debugSession[s].state \notin AllowedStates(m)
     THEN Commit(s, [w EXCEPT !.d.opResult = SESSION_INVALID_STATE])
     ELSE IF ~CanSend(w.c)
     THEN Commit(s, [w EXCEPT !.d.opResult = CONNECTION_FAILED])
     ELSE Commit(s, [w EXCEPT !.c = sendCommand(w.c, m), !.d.opResult = "pending"])

\* setVariableValue up to its first await: getSession, requireState
\* [PAUSED], sendCommand Debugger.evaluateOnCallFrame
WsSetVariableValue(s) ==
  /\ debugSession[s].state # "none"
  /\ wsClient[s].commandId < MaxCmds
  /\ LET w == [World(s) EXCEPT !.d.op = "setVariableValue",
                               !.d.opState = debugSession[s].state] IN
     IF s \notin debugSessions
     THEN Commit(s, [w EXCEPT !.d.opResult = SESSION_NOT_FOUND])
     ELSE IF debugSession[s].state # PAUSED
     THEN Commit(s, [w EXCEPT !.d.opResult = SESSION_INVALID_STATE])
     ELSE IF ~CanSend(w.c)
     THEN Commit(s, [w EXCEPT !.d.opResult = CONNECTION_FAILED])
     ELSE Commit(s, [w EXCEPT !.c = sendCommand(w.c, "Debugger.evaluateOnCallFrame"),
                              !.d.opResult = "pending"])

\* setBreakpoint / removeBreakpoint: getSession, requireState, sendCommand
BpMethods == {"Debugger.setBreakpointByUrl", "Debugger.removeBreakpoint"}
WsBreakpointOp(s, m, b) ==
  /\ debugSession[s].state # "none"
  /\ wsClient[s].commandId <= MaxCmds
  /\ LET w == [World(s) EXCEPT !.d.op = m, !.d.opState = debugSession[s].state] IN
     IF s \notin debugSessions
     THEN Commit(s, [w EXCEPT !.d.opResult = SESSION_NOT_FOUND])
     ELSE IF debugSession[s].state \notin LiveStates
     THEN Commit(s, [w EXCEPT !.d.opResult = SESSION_INVALID_STATE])
     ELSE IF ~CanSend(w.c)
     THEN Commit(s, [w EXCEPT !.d.opResult = CONNECTION_FAILED])
     ELSE Commit(s, [w EXCEPT !.c = sendCommandWith(w.c, m, b), !.d.opResult = "pending"])

\* handleSessionEvent, case "breakpointResolved"
handleBreakpointResolved(d, b, loc) ==
  IF b \in d.bpIds THEN [d EXCEPT !.bpLocs[b] = <<loc>>] ELSE d

\* ws.on("message") with Debugger.breakpointResolved
WsBreakpointResolved(s, b, loc) ==
  /\ wsClient[s].readyState = "OPEN"
  /\ wsClient[s].resolves < MaxResolved
  /\ Commit(s, [World(s) EXCEPT !.c.resolves = @ + 1,
                                !.d = handleBreakpointResolved(@, b, loc)])

\* SessionManager.disconnect: getSession, then wsClient.disconnect() which
\* awaits Debugger.disable (errors ignored) before it closes the socket
Disconnect(s) ==
  /\ debugSession[s].state # "none"
  /\ wsClient[s].commandId <= MaxCmds
  /\ LET w == [World(s) EXCEPT !.d.op = "disconnect", !.d.opState = debugSession[s].state] IN
     IF s \notin debugSessions
     THEN Commit(s, [w EXCEPT !.d.opResult = SESSION_NOT_FOUND])
     ELSE IF ~w.c.ws
     THEN Commit(s, [w EXCEPT !.d.state = DISCONNECTED, !.reg = @ \ {s},
                              !.d.opResult = "ok"])
     ELSE IF ~CanSend(w.c)
     THEN Commit(s, DisconnectCont(w, s))
     ELSE Commit(s, [w EXCEPT !.c = sendCommand(w.c, "Debugger.disable"),
                              !.d.opResult = "pending"])

(* ============================ the CDP stack ============================ *)
\* operation calls one run makes on the session after createSession
MaxCalls == 1
\* setBreakpoint / removeBreakpoint calls one run makes on the session
MaxBpCalls == 3


\* the one session id (uuid) createSession issues in a run
Sid == "s1"

\* call-frame ids of the n-th Debugger.paused event: one frame, whose id is
\* fresh for every pause; its scope chain has one scope with a remote object
FrameIds(n) == IF n = 0 THEN {} ELSE {n}
ScopeObjectId(n, i) == IF n # 0 /\ i = 0 THEN n ELSE 0
\* call-frame ids a caller may pass: the ids the target has issued so far,
\* of the current pause or of an earlier one
FrameArgs == 1..MaxPauses
Issued(f) == f <= cdpClient.pauses

\* the fields of a Debugger.paused event besides its call frames: the reason
\* and the optional hitBreakpoints (0: the event has none)
\* scripts the target announces in a run
MaxScripts == 1
ScriptIds == 1..MaxScripts
\* generated lines of a script, as source maps count them (1-based)
MaxLine == 2

\* A loaded source map (a SourceMapConsumer).  declared: its sources list
\* names the one original source "a"; content: what its sourcesContent
\* holds for "a" ("none": the map has no sourcesContent at all, "null": a
\* null entry, "empty": the empty string, "text": a non-empty string);
\* mapped: the generated lines (1-based) that have mappings.
Contents == {"none", "null", "empty", "text"}
SourceMaps == [declared : BOOLEAN, content : Contents, mapped : SUBSET (1..MaxLine)]
NoMap == [declared |-> FALSE, content |-> "absent", mapped |-> {}]

\* A call frame of a Debugger.paused event, by its location on the wire:
\* script id, 0-based line, 0-based column
Columns == {0, 1}
FrameLocs == [script : ScriptIds, line : 0..(MaxLine - 1), col : Columns]
OneFrame == <<[script |-> 1, line |-> 0, col |-> 0]>>
\* the caller's frame of a frame at f: the next script, the next line and
\* the other column, cyclically
Outer(f) == [script |-> (f.script % MaxScripts) + 1,
             line |-> (f.line + 1) % MaxLine, col |-> 1 - f.col]
\* the event's callFrames, innermost first: one frame, or one and its caller
FrameLists ==
  {<<f>> : f \in FrameLocs} \cup {<<f, Outer(f)>> : f \in FrameLocs}
\* the event's asyncStackTrace, which the target may leave out
AsyncTraces == {"undefined", "trace"}

Reasons == {"other", "breakpoint"}
PausedEvents == [reason : Reasons, hit : {0, 1}, frames : {OneFrame},
                 async : {"undefined"}]
PlainPause == [reason |-> "other", hit |-> 0, frames |-> OneFrame,
               async |-> "undefined"]
StackEvents == [reason : {"other"}, hit : {0}, frames : FrameLists,
                async : AsyncTraces]
NoData == [reason |-> "none", hit |-> 0, frames |-> <<>>, async |-> "undefined"]

\* an original position; NoLoc: none; Thrown: the library threw
NoLoc == [source |-> "none", line |-> 0, column |-> 0]
Thrown == [source |-> "throw", line |-> 0, column |-> 0]
\* what getCallStack and getOriginalLocation return; NoStack: nothing yet
NoStack == [callFrames |-> <<>>, asyncStackTrace |-> "undefined",
            hasSourceMap |-> FALSE, original |-> NoLoc]

\* A script URL, as the pieces the broker looks for in it: the URL is the
\* concatenation of its parts, "app" standing for any other text
UrlParts == {"node:", "internal/", "node_modules", "app"}
ScriptUrls ==
  {<<>>} \cup {<<a>> : a \in UrlParts} \cup {<<a, b>> : a \in UrlParts, b \in UrlParts}
AppUrl == <<"app">>

\* transport: "none", "connecting" (CDP(options) not settled), "open",
\* "closed"; attempts counts the connections opened; closes counts
\* client.close() calls that reached the library
\* scripts: the keys of CDPClient.scripts; urls: the url of each cached script
NewCdpClient ==
  [client |-> FALSE, connected |-> FALSE, transport |-> "none", attempts |-> 0,
   pauses |-> 0, tgtPaused |-> FALSE, tgtBps |-> {}, resolves |-> 0,
   lastPaused |-> NoData, scripts |-> {}, urls |-> [sc \in ScriptIds |-> <<>>],
   closes |-> 0]

\* pausedState is the pause whose call frames the snapshot holds (0: no
\* snapshot) and pausedData the snapshot's other fields; bpIds are the keys of
\* session.breakpoints, bpLocs[b] the resolvedLocations of the record under
\* key b; notified lists the reasons the executionPaused handler was called
\* with
\* How a source-map load ends: "ok", or one of its failures (the data URL
\* does not match the accepted form, the fetcher returns nothing, the fetch
\* throws, JSON.parse or the consumer's construction throws)
LoadFailures == {"noMatch", "empty", "fetchError", "parseError"}
LoadOutcomes == {"ok"} \cup LoadFailures
NoLoad == [outcome |-> "none", returned |-> "none"]

\* maps[sc] is the consumer sourceMapManager holds for script sc (NoMap:
\* none); loading are the scripts whose source map is being fetched;
\* loads[sc] is how the last load for sc ended and what it returned; live
\* counts the consumers constructed and not destroyed; destroyed counts the
\* calls of the sessionDestroyed handler; seen is what the listener of the
\* latest executionPaused / executionResumed call finds in the session
NewSession ==
  [state |-> "none", pausedState |-> 0, pausedData |-> NoData,
   bpIds |-> {}, bpLocs |-> [b \in BpIds |-> <<>>], notified |-> <<>>,
   maps |-> [sc \in ScriptIds |-> NoMap], loading |-> {},
   loads |-> [sc \in ScriptIds |-> NoLoad], live |-> 0, destroyed |-> 0,
   seen |-> [event |-> "none", state |-> CONNECTING, own |-> TRUE]]

\* acked: the enable commands the target has acknowledged, in order
NewCreating == [pc |-> "none", url |-> "", result |-> "none", acked |-> <<>>]

CdpWorld ==
  [cl |-> cdpClient, se |-> session, reg |-> sessions, cr |-> creating,
   calls |-> calls, sent |-> sent]

CdpCommit(w) ==
  /\ cdpClient' = w.cl
  /\ session' = w.se
  /\ sessions' = w.reg
  /\ creating' = w.cr
  /\ calls' = w.calls
  /\ sent' = w.sent
  /\ UNCHANGED wsVars

\* a command handed to the library: its method and the call-frame or
\* remote-object id it carries (0: none)
Send(w, method, id) ==
  [w EXCEPT !.sent = Append(@, [method |-> method, id |-> id, arg |-> "none"])]

\* a remote object of an evaluation response, by which of its optional
\* fields it carries
RemoteObjects == [objectId : BOOLEAN, value : BOOLEAN, unserializableValue : BOOLEAN]
NoRemote == [objectId |-> FALSE, value |-> FALSE, unserializableValue |-> FALSE]
PlainValue == [objectId |-> FALSE, value |-> TRUE, unserializableValue |-> FALSE]

\* setVariableValue's CallArgument, by the one field it is given ("none":
\* the empty object)
callArgument(r) ==
  IF r.objectId THEN "objectId"
  ELSE IF r.value THEN "value"
  ELSE IF r.unserializableValue THEN "unserializableValue"
  ELSE "none"

(* ------------- SessionManager.setupSessionEventHandlers --------------- *)
\* what a listener reading session s finds inside the callback for an event
\* whose snapshot is (n, ev) ((0, NoData): the event carries none): the
\* state, and whether the snapshot of s is the event's own
listenerSees(s, event, n, ev) ==
  [event |-> event, state |-> s.state,
   own |-> s.pausedState = n /\ s.pausedData = ev]

\* variant: the event's fields are merged into the stored snapshot, so an
\* optional field the event lacks keeps its earlier value
onPaused_merge(se, n, ev) ==
  LET s == [se EXCEPT !.state = PAUSED, !.pausedState = n,
                      !.pausedData = [ev EXCEPT !.hit = IF ev.hit = 0 THEN se.pausedData.hit
                                                        ELSE ev.hit]]
  IN [s EXCEPT !.notified = Append(@, ev.reason),
               !.seen = listenerSees(s, "paused", n, ev)]

\* variant: the event waits for the source-map loads in flight
onPaused_afterLoad(se, n, ev) ==
  IF se.loading # {} THEN se
  ELSE LET s == [se EXCEPT !.state = PAUSED, !.pausedState = n, !.pausedData = ev]
       IN [s EXCEPT !.notified = Append(@, ev.reason),
                    !.seen = listenerSees(s, "paused", n, ev)]

\* cdpClient.on('paused'): the state and a new snapshot object from the
\* event's fields are written, then the executionPaused handler is called
onPaused(se, n, ev) ==
  LET s == [se EXCEPT !.state = PAUSED, !.pausedState = n, !.pausedData = ev]
  IN [s EXCEPT !.notified = Append(@, ev.reason),
               !.seen = listenerSees(s, "paused", n, ev)]

\* variant: the executionResumed handler is called before the session is
\* written
onResumed_notifyFirst(se) ==
  [se EXCEPT !.state = RUNNING, !.pausedState = 0, !.pausedData = NoData,
             !.seen = listenerSees(se, "resumed", 0, NoData)]

\* cdpClient.on('resumed'): the session is written, then the
\* executionResumed handler is called
onResumed(se) ==
  LET s == [se EXCEPT !.state = RUNNING, !.pausedState = 0, !.pausedData = NoData]
  IN [s EXCEPT !.seen = listenerSees(s, "resumed", 0, NoData)]

\* variant: the event creates the record when there is none
onBreakpointResolved_upsert(se, b, loc) ==
  [se EXCEPT !.bpIds = @ \cup {b}, !.bpLocs[b] = Append(@, loc)]

\* cdpClient.on('breakpointResolved')
onBreakpointResolved(se, b, loc) ==
  IF b \in se.bpIds THEN [se EXCEPT !.bpLocs[b] = Append(@, loc)] ELSE se

\* cdpClient.on('disconnected')
onDisconnected(se) ==
  [se EXCEPT !.state = DISCONNECTED, !.pausedState = 0, !.pausedData = NoData]

(* ------------------------- createSession ------------------------------ *)
\* createSession after cdpClient.connect() resolved
installSession(w) ==
  [w EXCEPT !.se.state = CONNECTED, !.reg = @ \cup {Sid},
            !.cr.pc = "done", !.cr.result = "ok"]

\* createSession's catch: any failure of connect() becomes CONNECTION_FAILED
failCreate(w) ==
  [w EXCEPT !.cr.pc = "done", !.cr.result = CONNECTION_FAILED]

\* variant: the two enable commands in the other order
connectEnableDebugger_runtimeFirst(w) ==
  Send([w EXCEPT !.cl.client = TRUE, !.cl.connected = TRUE, !.cr.pc = "Debugger.enable"],
       "Runtime.enable", 0)

\* CDPClient.connect after CDP(options) resolved: connected, handlers set
\* up, Debugger.enable issued
connectEnableDebugger(w) ==
  Send([w EXCEPT !.cl.client = TRUE, !.cl.connected = TRUE, !.cr.pc = "Debugger.enable"],
       "Debugger.enable", 0)

\* CDPClient.connect after Debugger.enable resolved: Runtime.enable issued
connectEnableRuntime(w) ==
  Send([w EXCEPT !.cr.pc = "Runtime.enable"], "Runtime.enable", 0)

(* ------------------------ operation calls ----------------------------- *)
\* variant: the check looks at the client object alone
ensureConnected_clientOnly(cl) == cl.client

\* CDPClient.ensureConnected passes
ensureConnected(cl) == cl.connected /\ cl.client

\* variant: the check looks at the snapshot alone
IsPaused_snapshotOnly(se) == se.pausedState # 0

\* ensurePaused
IsPaused(se) == se.state = PAUSED /\ se.pausedState # 0
\* ensureRunning
IsRunning(se) == se.state = RUNNING \/ se.state = CONNECTED

\* call k returns or throws: its frame is gone, its result is kept
Done(w, k, res) ==
  [w EXCEPT !.calls[k].pc = "done", !.calls[k].frame = 0, !.calls[k].result = res]

\* resume: its continuation after Runtime.runIfWaitingForDebugger resolved
resumeRunIfWaitingAck(w, k) ==
  Done([w EXCEPT !.se.state = RUNNING], k, "ok")

\* setVariableValue: its continuation after evaluateOnCallFrame resolved
\* without exception details: cdpClient.setVariableValue (ensureConnected)
setVariableValueSecond(w, k, r) ==
  IF ~ensureConnected(w.cl) THEN Done([w EXCEPT !.calls[k].remote = r], k, "Error")
  ELSE [w EXCEPT !.calls[k].pc = "Debugger.setVariableValue",
                 !.calls[k].remote = r,
                 !.sent = Append(@, [method |-> "Debugger.setVariableValue",
                                     id |-> w.calls[k].frame,
                                     arg |-> callArgument(r)])]

\* variant: exception details make evaluate throw as they make
\* setVariableValue throw
evaluationResolved_throws(w, k, ex, r) ==
  IF ex THEN Done([w EXCEPT !.calls[k].exc = TRUE, !.calls[k].remote = r],
                  k, PROTOCOL_ERROR)
  ELSE IF w.calls[k].op = "setVariableValue" THEN setVariableValueSecond(w, k, r)
  ELSE Done([w EXCEPT !.calls[k].remote = r], k, "ok")

\* setVariableValue and evaluate after their evaluation command resolved
\* with exception details (ex) and the remote object r
evaluationResolved(w, k, ex, r) ==
  LET c == w.calls[k] IN
  IF c.op = "setVariableValue"
  THEN IF ex THEN Done([w EXCEPT !.calls[k].exc = TRUE, !.calls[k].remote = r],
                       k, PROTOCOL_ERROR)
       ELSE setVariableValueSecond(w, k, r)
  ELSE Done([w EXCEPT !.calls[k].exc = ex, !.calls[k].remote = r], k, "ok")

\* setBreakpoint after setBreakpointByUrl resolved: the record is stored
\* under the id of the response with the locations of the response
setBreakpointSet(w, k) ==
  LET b == w.calls[k].frame IN
  Done([w EXCEPT !.se.bpIds = @ \cup {b}, !.se.bpLocs[b] = <<>>], k, "ok")

\* removeBreakpoint after removeBreakpoint resolved
removeBreakpointDel(w, k) ==
  LET b == w.calls[k].frame IN
  Done([w EXCEPT !.se.bpIds = @ \ {b}, !.se.bpLocs[b] = <<>>], k, "ok")

\* variant: a resolved Debugger.resume sets RUNNING and drops the snapshot
CallResolved_resumeSetsRunning(w, k) ==
  LET c == w.calls[k] IN
  CASE c.pc = "Runtime.runIfWaitingForDebugger" -> resumeRunIfWaitingAck(w, k)
    [] c.pc = "Debugger.resume" ->
         Done([w EXCEPT !.se.state = RUNNING, !.se.pausedState = 0,
                        !.se.pausedData = NoData], k, "ok")
    [] c.pc = "Debugger.setBreakpointByUrl" -> setBreakpointSet(w, k)
    [] c.pc = "Debugger.removeBreakpoint" -> removeBreakpointDel(w, k)
    [] OTHER -> Done(w, k, "ok")

\* the continuation of call k when the command it awaits resolves
CallResolved(w, k) ==
  LET c == w.calls[k] IN
  CASE c.pc = "Runtime.runIfWaitingForDebugger" -> resumeRunIfWaitingAck(w, k)
    [] c.pc = "Debugger.setBreakpointByUrl" -> setBreakpointSet(w, k)
    [] c.pc = "Debugger.removeBreakpoint" -> removeBreakpointDel(w, k)
    [] c.op = "setVariableValue" /\ c.pc = "Debugger.evaluateOnCallFrame" ->
         setVariableValueSecond(w, k, PlainValue)
    [] c.pc = "Debugger.getScriptSource" ->
         Done([w EXCEPT !.calls[k].ret = "generated"], k, "ok")
    [] OTHER -> Done(w, k, "ok")

\* variant: resume sets RUNNING in a finally, also when its command failed
CallRejected_setsRunning(w, k) ==
  IF w.calls[k].pc = "Runtime.runIfWaitingForDebugger"
  THEN Done([w EXCEPT !.se.state = RUNNING], k, "Error")
  ELSE Done(w, k, "Error")

\* variant: removeBreakpoint deletes its record also when its command failed
CallRejected_deletesRecord(w, k) ==
  IF w.calls[k].pc = "Debugger.removeBreakpoint"
  THEN Done([w EXCEPT !.se.bpIds = @ \ {w.calls[k].frame}], k, "Error")
  ELSE Done(w, k, "Error")

\* ... and when it rejects: every operation rethrows the error
CallRejected(w, k) == Done(w, k, "Error")

Awaiting(c) == c.pc \notin {"done", "close"}

RECURSIVE RejectCalls(_, _)
RejectCalls(w, ks) ==
  IF ks = {} THEN w
  ELSE LET k == CHOOSE i \in ks : \A j \in ks : i <= j
       IN RejectCalls(CallRejected(w, k), ks \ {k})

(* --------------------- actions of the CDP stack ------------------------ *)
\* createSession up to its await of CDP(options) inside cdpClient.connect
CreateSession(u) ==
  /\ creating.pc = "none"
  /\ creating' = [creating EXCEPT !.pc = "CDP", !.url = u, !.result = "pending"]
  /\ session' = [session EXCEPT !.state = CONNECTING]
  /\ cdpClient' = [cdpClient EXCEPT !.transport = "connecting", !.attempts = @ + 1]
  /\ UNCHANGED <<sessions, calls, sent, wsVars>>

\* CDP(options) resolves: the transport is open
CdpOpen ==
  /\ cdpClient.transport = "connecting"
  /\ CdpCommit(connectEnableDebugger([CdpWorld EXCEPT !.cl.transport = "open"]))

\* CDP(options) rejects: no transport
CdpConnectFail ==
  /\ cdpClient.transport = "connecting"
  /\ CdpCommit(failCreate([CdpWorld EXCEPT !.cl.transport = "closed"]))

\* the target answers the enable command createSession awaits
CdpRespondCreate(ok) ==
  /\ cdpClient.transport = "open"
  /\ creating.pc \in {"Debugger.enable", "Runtime.enable"}
  /\ LET w == [CdpWorld EXCEPT !.cr.acked = Append(@, creating.pc)] IN
     CdpCommit(IF ~ok THEN failCreate(CdpWorld)
               ELSE IF creating.pc = "Debugger.enable" THEN connectEnableRuntime(w)
               ELSE installSession(w))

\* the target carries out the command of call k when it answers it with a
\* result: it then holds, or no longer holds, the breakpoint the call names
CdpTargetActs(w, k) ==
  LET c == w.calls[k] IN
  CASE c.pc = "Debugger.setBreakpointByUrl" -> [w EXCEPT !.cl.tgtBps = @ \cup {c.frame}]
    [] c.pc = "Debugger.removeBreakpoint" -> [w EXCEPT !.cl.tgtBps = @ \ {c.frame}]
    [] OTHER -> w

\* the target answers the command call k awaits
CdpRespond(k, ok) ==
  /\ cdpClient.transport = "open"
  /\ k \in 1..Len(calls)
  /\ Awaiting(calls[k])
  /\ CdpCommit(IF ok THEN CallResolved(CdpTargetActs(CdpWorld, k), k)
               ELSE CallRejected(CdpWorld, k))

\* the target answers the evaluation command call k awaits, with or without
\* exception details and with a remote object
EvalMethods == {"Debugger.evaluateOnCallFrame", "Runtime.evaluate"}
CdpRespondEvaluate(k, ex, r) ==
  /\ cdpClient.transport = "open"
  /\ k \in 1..Len(calls)
  /\ calls[k].pc \in EvalMethods
  /\ CdpCommit(evaluationResolved(CdpWorld, k, ex, r))

\* the transport closes under the broker: the library fails the commands in
\* flight and emits 'disconnect' (CDPClient clears connected, the session
\* handler runs); the awaiting calls then see their rejection
CdpDisconnect ==
  /\ cdpClient.transport = "open"
  /\ LET w1 == [CdpWorld EXCEPT !.cl.transport = "closed", !.cl.connected = FALSE,
                                !.se = onDisconnected(@)]
         w2 == IF creating.pc \in {"Debugger.enable", "Runtime.enable"}
               THEN failCreate(w1) ELSE w1
     IN CdpCommit(RejectCalls(w2, {k \in 1..Len(calls) : Awaiting(calls[k])}))

\* Debugger.paused arrives (the target pauses only while it runs)
CdpPaused(ev) ==
  /\ cdpClient.transport = "open"
  /\ cdpClient.pauses < MaxPauses
  /\ ~cdpClient.tgtPaused
  /\ cdpClient' = [cdpClient EXCEPT !.pauses = @ + 1, !.tgtPaused = TRUE,
                                    !.lastPaused = ev]
  /\ session' = onPaused(session, cdpClient.pauses + 1, ev)
  /\ UNCHANGED <<sessions, creating, calls, sent, wsVars>>

\* Debugger.paused arrives from a target that is paused already (a new pause
\* reported without a Debugger.resumed in between)
CdpPausedAgain(ev) ==
  /\ cdpClient.transport = "open"
  /\ cdpClient.pauses < MaxPauses
  /\ cdpClient.tgtPaused
  /\ cdpClient' = [cdpClient EXCEPT !.pauses = @ + 1, !.lastPaused = ev]
  /\ session' = onPaused(session, cdpClient.pauses + 1, ev)
  /\ UNCHANGED <<sessions, creating, calls, sent, wsVars>>

\* Debugger.resumed arrives
CdpResumed ==
  /\ cdpClient.transport = "open"
  /\ cdpClient.tgtPaused
  /\ cdpClient' = [cdpClient EXCEPT !.tgtPaused = FALSE]
  /\ session' = onResumed(session)
  /\ UNCHANGED <<sessions, creating, calls, sent, wsVars>>

\* a new operation call on the session id
CanCall == creating.pc # "none" /\ Len(calls) < MaxCalls
\* (input: the frame or script id the caller named, kept after the call
\* returned; a breakpoint call's location is in the session's table)
NewCall(w, op, frame) ==
  [w EXCEPT !.calls = Append(@, [op |-> op, pc |-> "start", frame |-> frame,
                                 result |-> "pending", exc |-> FALSE,
                                 remote |-> NoRemote, scope |-> 0,
                                 input |-> IF op \in {"setBreakpoint", "removeBreakpoint"}
                                           THEN 0 ELSE frame,
                                 opt |-> <<>>, ret |-> "none",
                                 stack |-> NoStack, queries |-> <<>>,
                                 list |-> {}])]
\* the synchronous part of an operation that issues one command
\* (getSession, its state check, ensureConnected, the command)
IssueOrFail(w0, op, frame, allowed, method, id) ==
  LET w == NewCall(w0, op, frame)
      k == Len(w.calls)
  IN IF Sid \notin w.reg THEN Done(w, k, SESSION_NOT_FOUND)
     ELSE IF ~allowed THEN Done(w, k, SESSION_INVALID_STATE)
     ELSE IF ~ensureConnected(w.cl) THEN Done(w, k, "Error")
     ELSE Send([w EXCEPT !.calls[k].pc = method], method, id)

\* SessionManager.resume
resume ==
  /\ CdpCommit(IF session.state = PAUSED
               THEN IssueOrFail(CdpWorld, "resume", 0, TRUE, "Debugger.resume", 0)
               ELSE IssueOrFail(CdpWorld, "resume", 0, session.state = CONNECTED,
                                "Runtime.runIfWaitingForDebugger", 0))

\* a call of it, while the bound on calls allows one
Resume == CanCall /\ resume

\* SessionManager.pause
pause ==
  /\ CdpCommit(IssueOrFail(CdpWorld, "pause", 0, IsRunning(session), "Debugger.pause", 0))

\* a call of it, while the bound on calls allows one
Pause == CanCall /\ pause

\* SessionManager.stepOver / stepInto / stepOut
StepMethods == {"Debugger.stepOver", "Debugger.stepInto", "Debugger.stepOut"}
step(m) ==
  /\ CdpCommit(IssueOrFail(CdpWorld, m, 0, IsPaused(session), m, 0))

\* a call of it, while the bound on calls allows one
Step(m) == CanCall /\ step(m)

\* a new setBreakpoint / removeBreakpoint call on the session id
CanCallBp == creating.pc # "none" /\ Len(calls) < MaxBpCalls

\* SessionManager.setBreakpoint up to its await (no state check)
setBreakpoint(b) ==
  /\ CdpCommit(IssueOrFail(CdpWorld, "setBreakpoint", b, TRUE,
                           "Debugger.setBreakpointByUrl", 0))

\* a call of it, while the bound on calls allows one
SetBreakpoint(b) == CanCallBp /\ setBreakpoint(b)

\* SessionManager.removeBreakpoint up to its await
removeBreakpoint(b) ==
  /\ LET w == NewCall(CdpWorld, "removeBreakpoint", b)
         k == Len(w.calls)
     IN CdpCommit(IF Sid \in sessions /\ b \notin session.bpIds
                  THEN Done(w, k, BREAKPOINT_NOT_FOUND)
                  ELSE IssueOrFail(CdpWorld, "removeBreakpoint", b, TRUE,
                                   "Debugger.removeBreakpoint", 0))

\* a call of it, while the bound on calls allows one
RemoveBreakpoint(b) == CanCallBp /\ removeBreakpoint(b)

\* Debugger.breakpointResolved arrives
CdpBreakpointResolved(b, loc) ==
  /\ cdpClient.transport = "open"
  /\ cdpClient.resolves < MaxResolved
  /\ cdpClient' = [cdpClient EXCEPT !.resolves = @ + 1]
  /\ session' = onBreakpointResolved(session, b, loc)
  /\ UNCHANGED <<sessions, creating, calls, sent, wsVars>>

(* -------------------------- SourceMapManager --------------------------- *)
\* SourceMapManager.getOriginalSources: consumer.sources
getOriginalSources(m) == IF m.declared THEN <<"a">> ELSE <<>>

\* SourceMapManager.getOriginalSource: consumer.sourceContentFor(sourceUrl),
\* which returns null when the map has no sourcesContent, the entry of a
\* source of the map, and throws for a source the map does not name
getOriginalSource(m, src) ==
  IF m.content = "none" THEN "null"
  ELSE IF m.declared /\ src = "a" THEN m.content
  ELSE "throw"

\* consumer.originalPositionFor({line, column}) for a 1-based generated
\* line: the library refuses a line below 1; a mapped line l of the
\* generated file comes from line l + MaxLine of source "a", same column
originalPositionFor(m, line, column) ==
  IF line < 1 THEN Thrown
  ELSE IF m.declared /\ line \in m.mapped
       THEN [source |-> "a", line |-> line + MaxLine, column |-> column]
  ELSE NoLoc

\* SourceMapManager.getOriginalLocation: null (NoLoc) without a consumer or
\* when the position has no original source
getOriginalLocation(m, line, column) ==
  IF m = NoMap THEN NoLoc ELSE originalPositionFor(m, line, column)

\* variant: the wire line goes to the map as it is
frameQuery_wireLine(f) == <<f.script, f.line, f.col>>

\* the query enrichCallFrames makes for a frame: the wire line plus one
frameQuery(f) == <<f.script, f.line + 1, f.col>>

\* one frame of SessionManager.enrichCallFrames
enrichFrame(se, f) ==
  LET q == frameQuery(f)
  IN [generatedLocation |-> f,
      originalLocation |-> getOriginalLocation(se.maps[q[1]], q[2], q[3])]

\* variant: the frames come out outermost first
enrichCallFrames_reversed(se) ==
  LET n == Len(se.pausedData.frames)
  IN [i \in 1..n |-> enrichFrame(se, se.pausedData.frames[n + 1 - i])]

\* SessionManager.enrichCallFrames: callFrames.map(...)
enrichCallFrames(se) ==
  [i \in 1..Len(se.pausedData.frames) |-> enrichFrame(se, se.pausedData.frames[i])]

\* SessionManager.getCallStack: synchronous, reads the snapshot
getCallStack(includeAsync) ==
  /\ LET w0 == NewCall(CdpWorld, "getCallStack", 0)
         k == Len(w0.calls)
         w == [w0 EXCEPT !.calls[k].opt = <<includeAsync>>]
         frames == session.pausedData.frames
         enriched == enrichCallFrames(session)
         wq == [w EXCEPT !.calls[k].queries =
                           [i \in 1..Len(frames) |-> frameQuery(frames[i])]]
     IN CdpCommit(IF Sid \notin sessions THEN Done(w, k, SESSION_NOT_FOUND)
                  ELSE IF ~IsPaused(session) THEN Done(w, k, SESSION_INVALID_STATE)
                  ELSE IF \E i \in 1..Len(enriched) :
                            enriched[i].originalLocation = Thrown
                  THEN Done(wq, k, "Error")
                  ELSE Done([wq EXCEPT
                               !.calls[k].stack.callFrames = enriched,
                               !.calls[k].stack.asyncStackTrace =
                                 IF includeAsync THEN session.pausedData.async
                                 ELSE "undefined"], k, "ok"))

\* a call of it, while the bound on calls allows one
GetCallStack(includeAsync) == CanCall /\ getCallStack(includeAsync)

\* SessionManager.getOriginalLocation(sessionId, scriptId, line, column):
\* synchronous; the caller's position goes to the map as it is
getOriginalLocationOf(sc, line, column) ==
  /\ LET w0 == NewCall(CdpWorld, "getOriginalLocation", sc)
         k == Len(w0.calls)
         w == [w0 EXCEPT !.calls[k].opt = <<line, column>>]
         m == session.maps[sc]
         wq == [w EXCEPT !.calls[k].queries = <<<<sc, line, column>>>>]
         original == getOriginalLocation(m, line, column)
     IN CdpCommit(IF Sid \notin sessions THEN Done(w, k, SESSION_NOT_FOUND)
                  ELSE IF m = NoMap THEN Done(w, k, "ok")
                  ELSE IF original = Thrown THEN Done(wq, k, "Error")
                  ELSE Done([wq EXCEPT !.calls[k].stack.hasSourceMap = TRUE,
                                       !.calls[k].stack.original = original],
                            k, "ok"))

\* a call of it, while the bound on calls allows one
GetOriginalLocation(sc, line, column) ==
  CanCall /\ getOriginalLocationOf(sc, line, column)

\* SessionManager.evaluate (f = 0: no call frame id)
evaluate(f) ==
  /\ Issued(f)
  /\ CdpCommit(IF f # 0
               THEN IssueOrFail(CdpWorld, "evaluateOnCallFrame", f, IsPaused(session),
                                "Debugger.evaluateOnCallFrame", f)
               ELSE IssueOrFail(CdpWorld, "evaluate", f, TRUE, "Runtime.evaluate", 0))

\* a call of it, while the bound on calls allows one
Evaluate(f) == CanCall /\ evaluate(f)

\* variant: the scope is taken from the snapshot without looking the call
\* frame id up in it
getScopeVariables_noFrameLookup(f, i) ==
  /\ Issued(f)
  /\ LET w == NewCall(CdpWorld, "getScopeVariables", f)
         k == Len(w.calls)
         w2 == IF Sid \in sessions /\ IsPaused(session)
                  /\ ScopeObjectId(session.pausedState, i) = 0
               THEN Done(w, k, INVALID_PARAMETERS)
               ELSE IssueOrFail(CdpWorld, "getScopeVariables", f, IsPaused(session),
                                "Runtime.getProperties",
                                ScopeObjectId(session.pausedState, i))
     IN CdpCommit([w2 EXCEPT !.calls[k].scope = i])

\* SessionManager.getScopeVariables (the call keeps the scope index it was
\* given)
getScopeVariables(f, i) ==
  /\ Issued(f)
  /\ LET w == NewCall(CdpWorld, "getScopeVariables", f)
         k == Len(w.calls)
         w2 == IF Sid \in sessions /\ IsPaused(session)
                  /\ (f \notin FrameIds(session.pausedState)
                      \/ ScopeObjectId(session.pausedState, i) = 0)
               THEN Done(w, k, INVALID_PARAMETERS)
               ELSE IssueOrFail(CdpWorld, "getScopeVariables", f, IsPaused(session),
                                "Runtime.getProperties",
                                ScopeObjectId(session.pausedState, i))
     IN CdpCommit([w2 EXCEPT !.calls[k].scope = i])

\* a call of it, while the bound on calls allows one
GetScopeVariables(f, i) == CanCall /\ getScopeVariables(f, i)

\* SessionManager.setVariableValue up to its first await
setVariableValue(f) ==
  /\ Issued(f)
  /\ CdpCommit(IssueOrFail(CdpWorld, "setVariableValue", f, IsPaused(session),
                           "Debugger.evaluateOnCallFrame", f))

\* a call of it, while the bound on calls allows one
SetVariableValue(f) == CanCall /\ setVariableValue(f)

\* original source URLs a caller passes to getScriptSource ("default": none)
SourceUrls == {"default", "a", "x"}

\* SessionManager.getScriptSource up to its return or its await
getScriptSource(sc, preferOriginal, url) ==
  LET w0 == NewCall(CdpWorld, "getScriptSource", sc)
      k == Len(w0.calls)
      w == [w0 EXCEPT !.calls[k].opt = <<preferOriginal, url>>]
      m == session.maps[sc]
      sources == getOriginalSources(m)
      targetSource == IF url # "default" THEN url
                      ELSE IF sources # <<>> THEN sources[1] ELSE "undefined"
      original == IF preferOriginal /\ m # NoMap /\ targetSource # "undefined"
                  THEN getOriginalSource(m, targetSource) ELSE "null"
  IN CdpCommit(
       IF Sid \notin sessions THEN Done(w, k, SESSION_NOT_FOUND)
       ELSE IF sc \notin cdpClient.scripts THEN Done(w, k, SCRIPT_NOT_FOUND)
       ELSE IF original = "throw" THEN Done(w, k, "Error")
       ELSE IF original = "text" THEN Done([w EXCEPT !.calls[k].ret = "original"], k, "ok")
       ELSE IF ~ensureConnected(w.cl) THEN Done(w, k, "Error")
       ELSE Send([w EXCEPT !.calls[k].pc = "Debugger.getScriptSource"],
                 "Debugger.getScriptSource", sc))

\* a call of it, while the bound on calls allows one
GetScriptSource(sc, preferOriginal, url) ==
  CanCall /\ getScriptSource(sc, preferOriginal, url)

\* Debugger.scriptParsed arrives: CDPClient caches the script, the session's
\* handler starts loading the source map the event names (hasUrl)
scriptParsed(sc, hasUrl, url) ==
  /\ cdpClient.transport = "open"
  /\ sc \notin cdpClient.scripts
  /\ cdpClient' = [cdpClient EXCEPT !.scripts = @ \cup {sc}, !.urls[sc] = url]
  /\ session' = IF hasUrl THEN [session EXCEPT !.loading = @ \cup {sc}] ELSE session
  /\ UNCHANGED <<sessions, creating, calls, sent, wsVars>>

\* the event for an application script
CdpScriptParsed(sc, hasUrl) == scriptParsed(sc, hasUrl, AppUrl)

\* consumers constructed for one session in a run
MaxLive == 2

\* the event names a script id the cache already holds, with a source map
\* reference: the cache entry is overwritten and another load starts
CdpScriptParsedAgain(sc) ==
  /\ cdpClient.transport = "open"
  /\ sc \in cdpClient.scripts
  /\ sc \notin session.loading
  /\ session.live < MaxLive
  /\ session' = [session EXCEPT !.loading = @ \cup {sc}]
  /\ UNCHANGED <<cdpClient, sessions, creating, calls, sent, wsVars>>

\* the event for a script of any url, without a source map
CdpScriptParsedAt(sc, url) == scriptParsed(sc, FALSE, url)

\* url.startsWith(part), url.includes(part), !url
startsWith(url, part) == Len(url) > 0 /\ url[1] = part
includes(url, part) == \E i \in 1..Len(url) : url[i] = part
isEmpty(url) == Len(url) = 0

\* variant: a url is internal only by its beginning
isInternal_prefixOnly(url) ==
  \/ startsWith(url, "node_modules")
  \/ startsWith(url, "node:")
  \/ startsWith(url, "internal/")
  \/ isEmpty(url)

\* the filter of SessionManager.listScripts
isInternal(url) ==
  \/ includes(url, "node_modules")
  \/ startsWith(url, "node:")
  \/ startsWith(url, "internal/")
  \/ isEmpty(url)

\* SessionManager.listScripts: synchronous, getSession and a filtered read
\* of the client's script cache
listScripts(includeInternal) ==
  LET w0 == NewCall(CdpWorld, "listScripts", 0)
      k == Len(w0.calls)
      w == [w0 EXCEPT !.calls[k].opt = <<includeInternal>>]
      kept == {sc \in cdpClient.scripts :
                 includeInternal \/ ~isInternal(cdpClient.urls[sc])}
  IN CdpCommit(IF Sid \notin sessions THEN Done(w, k, SESSION_NOT_FOUND)
               ELSE Done([w EXCEPT !.calls[k].list = kept], k, "ok"))

\* a call of it, while the bound on calls allows one
ListScripts(includeInternal) == CanCall /\ listScripts(includeInternal)

\* variant: a parse error leaves the load through its throw
loadReturns_parseThrows(outcome) ==
  IF outcome = "ok" THEN "true"
  ELSE IF outcome = "parseError" THEN "throw" ELSE "false"

\* what loadSourceMap / loadInlineSourceMap returns: false from the early
\* returns (no match, nothing fetched; the fetcher turns its own error into
\* null) and from the catch block, true after the consumer was stored
loadReturns(outcome) ==
  IF outcome = "ok" THEN "true" ELSE "false"

\* consumers.set(scriptId, consumer) after the consumer was constructed: a
\* consumer the table held for the script is replaced, not destroyed
storeConsumer(se, sc, outcome, m) ==
  IF outcome = "ok"
  THEN [se EXCEPT !.maps[sc] = m, !.live = @ + 1]
  ELSE se

\* SourceMapManager.clear: every consumer of the table is destroyed and the
\* table emptied
clear(se) ==
  [se EXCEPT !.live = @ - Cardinality({sc \in ScriptIds : se.maps[sc] # NoMap}),
             !.maps = [sc \in ScriptIds |-> NoMap]]

\* loadSourceMap / loadInlineSourceMap ends with the outcome given
SourceMapLoaded(sc, outcome, m) ==
  /\ sc \in session.loading
  /\ session' = [storeConsumer(session, sc, outcome, m) EXCEPT
                   !.loading = @ \ {sc},
                   !.loads[sc] = [outcome |-> outcome,
                                  returned |-> loadReturns(outcome)]]
  /\ UNCHANGED <<cdpClient, sessions, creating, calls, sent, wsVars>>

\* SessionManager.listBreakpoints: synchronous, getSession and a read
listBreakpoints ==
  LET w == NewCall(CdpWorld, "listBreakpoints", 0)
      k == Len(w.calls)
  IN CdpCommit(IF Sid \notin sessions THEN Done(w, k, SESSION_NOT_FOUND)
               ELSE Done(w, k, "ok"))

\* SessionManager.destroySession up to its await of client.close()
destroySession ==
  /\ LET w == NewCall(CdpWorld, "destroySession", 0)
         k == Len(w.calls)
     IN CdpCommit(
          IF Sid \notin sessions THEN Done(w, k, SESSION_NOT_FOUND)
          ELSE IF cdpClient.client
          THEN [w EXCEPT !.calls[k].pc = "close", !.cl.closes = @ + 1]
          ELSE Done([w EXCEPT !.reg = @ \ {Sid}, !.se = clear(@),
                              !.se.destroyed = @ + 1], k, "ok"))

\* a call of it, while the bound on calls allows one
DestroySession == CanCall /\ destroySession

\* variant: the session stays in the registry after close() settled
CloseDone_keepsSession(k, ok) ==
  /\ k \in 1..Len(calls)
  /\ calls[k].pc = "close"
  /\ CdpCommit(Done([CdpWorld EXCEPT !.cl.transport = "closed", !.cl.client = FALSE,
                                     !.cl.connected = FALSE], k, "ok"))

\* client.close() settles (ok: the transport is closed, without a
\* 'disconnect' event; ~ok: it threw, which destroySession ignores)
CloseDone(k, ok) ==
  /\ k \in 1..Len(calls)
  /\ calls[k].pc = "close"
  /\ LET w1 == IF ok
               THEN RejectCalls([CdpWorld EXCEPT !.cl.transport = "closed",
                                                 !.cl.client = FALSE,
                                                 !.cl.connected = FALSE,
                                                 !.cl.scripts = {},
                                                 !.cl.urls = [sc \in ScriptIds |-> <<>>]],
                                IF cdpClient.transport = "open"
                                THEN {j \in 1..Len(calls) : Awaiting(calls[j])} ELSE {})
               ELSE CdpWorld
     IN CdpCommit(Done([w1 EXCEPT !.reg = @ \ {Sid}, !.se = clear(@),
                                  !.se.destroyed = @ + 1], k, "ok"))

\* no session exists; the configuration is either setting of
\* requireConfirmationForRemote
Init ==
  /\ wsClient = [s \in WsIds |-> NewWsClient]
  /\ debugSession = [s \in WsIds |-> NewDebugSession]
  /\ debugSessions = {}
  /\ requireConfirmationForRemote \in BOOLEAN
  /\ cdpClient = NewCdpClient
  /\ session = NewSession
  /\ sessions = {}
  /\ creating = NewCreating
  /\ calls = <<>>
  /\ sent = <<>>

(* --------------------------- specifications ---------------------------- *)
vars == <<wsClient, debugSession, debugSessions, requireConfirmationForRemote,
          cdpClient, session, sessions, creating, calls, sent>>

\* one session of the WebSocket stack, its correlator under every
\* interleaving of responses, timeouts, events and closure
NextWs ==
  \E s \in {1} :
    \/ \E u \in {"ws://localhost:9229/t", "http://localhost:9229/t"} : Connect(s, u)
    \/ WsOpen(s)
    \/ WsError(s)
    \/ ConnectTimeout(s)
    \/ \E id \in CmdIds, e \in BOOLEAN : HandleResponse(s, id, e)
    \/ \E id \in CmdIds : CommandTimeout(s, id)
    \/ WsClose(s)
    \/ WsPaused(s)
    \/ WsResumed(s)
    \/ \E m \in WsOps : WsOp(s, m)
    \/ Disconnect(s)

SpecWs == Init /\ [][NextWs]_vars

\* one session of the WebSocket stack and its commands: the handshake's
\* Debugger.enable, evaluateExpression calls, disconnect's Debugger.disable
NextWsCmd ==
  \E s \in {1} :
    \/ Connect(s, "ws://localhost:9229/t")
    \/ WsOpen(s)
    \/ WsError(s)
    \/ ConnectTimeout(s)
    \/ \E id \in CmdIds, e \in BOOLEAN : HandleResponse(s, id, e)
    \/ \E id \in CmdIds : CommandTimeout(s, id)
    \/ WsClose(s)
    \/ WsOp(s, "Runtime.evaluate")
    \/ Disconnect(s)

\* with the event loop running every armed command timeout: a setTimeout
\* callback that stays armed is eventually called
SpecWsLive ==
  /\ Init
  /\ [][NextWsCmd]_vars
  /\ \A id \in CmdIds : WF_vars(CommandTimeout(1, id))

\* concurrent connect calls against the registry and its cap
NextReg ==
  \E s \in WsIds :
    \/ \E u \in Urls : Connect(s, u)
    \/ WsOpen(s)
    \/ WsError(s)
    \/ ConnectTimeout(s)
    \/ \E id \in CmdIds, e \in BOOLEAN : HandleResponse(s, id, e)
    \/ \E id \in CmdIds : CommandTimeout(s, id)
    \/ WsClose(s)
    \/ Disconnect(s)

SpecReg == Init /\ [][NextReg]_vars

\* one session of the CDP stack: createSession, the target's events, the
\* operations and their acknowledgements, closure and destroySession
NextCdp ==
  \/ \E u \in {"ws://localhost:9229/t"} : CreateSession(u)
  \/ CdpOpen
  \/ CdpConnectFail
  \/ \E ok \in BOOLEAN : CdpRespondCreate(ok)
  \/ \E k \in 1..MaxCalls, ok \in BOOLEAN : CdpRespond(k, ok)
  \/ CdpDisconnect
  \/ CdpPaused(PlainPause)
  \/ CdpResumed
  \/ Resume
  \/ Pause
  \/ \E m \in StepMethods : Step(m)
  \/ \E a \in BOOLEAN : GetCallStack(a)
  \/ \E f \in {0} \cup FrameArgs : Evaluate(f)
  \/ \E f \in FrameArgs, i \in {0, 1} : GetScopeVariables(f, i)
  \/ \E f \in FrameArgs : SetVariableValue(f)
  \/ DestroySession
  \/ \E k \in 1..MaxCalls, ok \in BOOLEAN : CloseDone(k, ok)

SpecCdp == Init /\ [][NextCdp]_vars

\* one session of the WebSocket stack and its breakpoints
NextBp ==
  \E s \in {1} :
    \/ Connect(s, "ws://localhost:9229/t")
    \/ WsOpen(s)
    \/ \E id \in CmdIds, e \in BOOLEAN : HandleResponse(s, id, e)
    \/ \E id \in CmdIds : CommandTimeout(s, id)
    \/ WsClose(s)
    \/ \E m \in BpMethods, b \in BpIds : WsBreakpointOp(s, m, b)
    \/ \E b \in BpIds, loc \in Locs : WsBreakpointResolved(s, b, loc)

SpecBp == Init /\ [][NextBp]_vars

\* one session of the WebSocket stack and its disconnect calls
NextWsDisconnect ==
  \E s \in {1} :
    \/ Connect(s, "ws://localhost:9229/t")
    \/ WsOpen(s)
    \/ \E id \in CmdIds, e \in BOOLEAN : HandleResponse(s, id, e)
    \/ \E id \in CmdIds : CommandTimeout(s, id)
    \/ WsClose(s)
    \/ Disconnect(s)

SpecWsDisconnect == Init /\ [][NextWsDisconnect]_vars

\* one session of the WebSocket stack that receives, among responses and
\* events, frames it cannot use
NextWsFrames ==
  \E s \in {1} :
    \/ Connect(s, "ws://localhost:9229/t")
    \/ WsOpen(s)
    \/ \E id \in CmdIds, e \in BOOLEAN : HandleResponse(s, id, e)
    \/ WsClose(s)
    \/ WsPaused(s)
    \/ WsResumed(s)
    \/ WsOp(s, "Debugger.pause")
    \/ \E frame \in DroppedFrames : WsFrameDropped(s, frame)

SpecWsFrames == Init /\ [][NextWsFrames]_vars

\* one session of the WebSocket stack and its setVariableValue calls
NextWsSetVar ==
  \E s \in {1} :
    \/ Connect(s, "ws://localhost:9229/t")
    \/ WsOpen(s)
    \/ \E id \in CmdIds, e \in BOOLEAN : HandleResponse(s, id, e)
    \/ \E id \in CmdIds : WsRespondException(s, id)
    \/ \E id \in CmdIds : CommandTimeout(s, id)
    \/ WsClose(s)
    \/ WsPaused(s)
    \/ WsResumed(s)
    \/ WsSetVariableValue(s)

SpecWsSetVar == Init /\ [][NextWsSetVar]_vars

\* one session of the CDP stack and its breakpoints
NextCdpBp ==
  \/ CreateSession("ws://localhost:9229/t")
  \/ CdpOpen
  \/ \E ok \in BOOLEAN : CdpRespondCreate(ok)
  \/ \E k \in 1..MaxBpCalls, ok \in BOOLEAN : CdpRespond(k, ok)
  \/ CdpDisconnect
  \/ \E b \in BpIds : SetBreakpoint(b)
  \/ \E b \in BpIds : RemoveBreakpoint(b)
  \/ \E b \in BpIds, loc \in Locs : CdpBreakpointResolved(b, loc)

SpecCdpBp == Init /\ [][NextCdpBp]_vars

\* one session of the CDP stack, destroyed and then named again by further
\* operations (the target never pauses, so no call frame id is in use)
MaxDestroyCalls == 2
CanCallDestroy == creating.pc # "none" /\ Len(calls) < MaxDestroyCalls
NextDestroy ==
  \/ CreateSession("ws://localhost:9229/t")
  \/ CdpOpen
  \/ \E ok \in BOOLEAN : CdpRespondCreate(ok)
  \/ \E k \in 1..MaxDestroyCalls, ok \in BOOLEAN : CdpRespond(k, ok)
  \/ CdpDisconnect
  \/ CanCallDestroy /\ destroySession
  \/ \E k \in 1..MaxDestroyCalls, ok \in BOOLEAN : CloseDone(k, ok)
  \/ CanCallDestroy /\ resume
  \/ CanCallDestroy /\ pause
  \/ CanCallDestroy /\ \E m \in StepMethods : step(m)
  \/ \E a \in BOOLEAN : CanCallDestroy /\ getCallStack(a)
  \/ CanCallDestroy /\ evaluate(0)
  \/ CanCallDestroy /\ setBreakpoint(1)
  \/ CanCallDestroy /\ removeBreakpoint(1)
  \/ CanCallDestroy /\ listBreakpoints

SpecDestroy == Init /\ [][NextDestroy]_vars

\* one session of the CDP stack and its evaluations: evaluate and
\* setVariableValue, answered with every shape of evaluation response
NextEval ==
  \/ CreateSession("ws://localhost:9229/t")
  \/ CdpOpen
  \/ \E ok \in BOOLEAN : CdpRespondCreate(ok)
  \/ \E k \in 1..MaxCalls, ok \in BOOLEAN : CdpRespond(k, ok)
  \/ \E k \in 1..MaxCalls, ex \in BOOLEAN, r \in RemoteObjects : CdpRespondEvaluate(k, ex, r)
  \/ CdpDisconnect
  \/ CdpPaused(PlainPause)
  \/ CdpResumed
  \/ \E f \in {0} \cup FrameArgs : Evaluate(f)
  \/ \E f \in FrameArgs : SetVariableValue(f)

SpecEval == Init /\ [][NextEval]_vars

\* one session of the CDP stack, scripts of every kind of url, listScripts
NextList ==
  \/ CreateSession("ws://localhost:9229/t")
  \/ CdpOpen
  \/ \E ok \in BOOLEAN : CdpRespondCreate(ok)
  \/ CdpDisconnect
  \/ \E sc \in ScriptIds, url \in ScriptUrls : CdpScriptParsedAt(sc, url)
  \/ \E a \in BOOLEAN : ListScripts(a)

SpecList == Init /\ [][NextList]_vars

\* one session of the CDP stack, the scripts its target announces, their
\* source maps (with and without embedded content) and getScriptSource
ContentMaps == {m \in SourceMaps : m.mapped = {}}
NextScripts ==
  \/ CreateSession("ws://localhost:9229/t")
  \/ CdpOpen
  \/ \E ok \in BOOLEAN : CdpRespondCreate(ok)
  \/ \E k \in 1..MaxCalls, ok \in BOOLEAN : CdpRespond(k, ok)
  \/ CdpDisconnect
  \/ \E sc \in ScriptIds, hasUrl \in BOOLEAN : CdpScriptParsed(sc, hasUrl)
  \/ \E sc \in ScriptIds, o \in {"ok", "parseError"}, m \in ContentMaps :
       SourceMapLoaded(sc, o, m)
  \/ \E sc \in ScriptIds, p \in BOOLEAN, u \in SourceUrls : GetScriptSource(sc, p, u)

SpecScripts == Init /\ [][NextScripts]_vars

\* one session of the CDP stack whose scripts' source maps load, or fail to
\* load in each way, while the target pauses and resumes
NextLoad ==
  \/ CreateSession("ws://localhost:9229/t")
  \/ CdpOpen
  \/ \E ok \in BOOLEAN : CdpRespondCreate(ok)
  \/ CdpDisconnect
  \/ \E sc \in ScriptIds, hasUrl \in BOOLEAN : CdpScriptParsed(sc, hasUrl)
  \/ \E sc \in ScriptIds, o \in LoadOutcomes, m \in ContentMaps :
       SourceMapLoaded(sc, o, m)
  \/ CdpPaused(PlainPause)
  \/ CdpResumed

SpecLoad == Init /\ [][NextLoad]_vars

\* one session of the CDP stack whose scripts' source maps load, also a
\* second time, and which is destroyed
TextMap == [declared |-> TRUE, content |-> "text", mapped |-> {}]
NextMaps ==
  \/ CreateSession("ws://localhost:9229/t")
  \/ CdpOpen
  \/ \E ok \in BOOLEAN : CdpRespondCreate(ok)
  \/ \E sc \in ScriptIds : CdpScriptParsed(sc, TRUE)
  \/ \E sc \in ScriptIds : CdpScriptParsedAgain(sc)
  \/ \E sc \in ScriptIds, o \in {"ok", "parseError"} : SourceMapLoaded(sc, o, TextMap)
  \/ CanCallDestroy /\ destroySession
  \/ \E k \in 1..MaxDestroyCalls, ok \in BOOLEAN : CloseDone(k, ok)

SpecMaps == Init /\ [][NextMaps]_vars

\* one session of the CDP stack with a breakpoint, whose target pauses,
\* resumes and resolves the breakpoint while a source-map load is in flight
InFlight == session.loading # {}
NextLoadEvents ==
  \/ CreateSession("ws://localhost:9229/t")
  \/ CdpOpen
  \/ \E ok \in BOOLEAN : CdpRespondCreate(ok)
  \/ \E k \in 1..MaxCalls, ok \in BOOLEAN : CdpRespond(k, ok)
  \/ \E sc \in ScriptIds : CdpScriptParsed(sc, TRUE)
  \/ \E sc \in ScriptIds, o \in {"ok", "parseError"} : SourceMapLoaded(sc, o, TextMap)
  \/ CanCall /\ setBreakpoint(1)
  \/ InFlight /\ CdpPaused(PlainPause)
  \/ InFlight /\ CdpResumed
  \/ \E loc \in Locs : InFlight /\ CdpBreakpointResolved(1, loc)

SpecLoadEvents == Init /\ [][NextLoadEvents]_vars

\* One session of the CDP stack paused with one or two frames, source maps
\* with mappings, and one getCallStack or getOriginalLocation.  Both are
\* synchronous and change nothing the session holds, so a call behaves the
\* same whatever calls came before it: a run ends with its first call
\* (BeforeCall).
PositionMaps == {m \in SourceMaps : m.declared /\ m.content = "none"}
BeforeCall == calls = <<>>
NextStack ==
  \/ CreateSession("ws://localhost:9229/t")
  \/ BeforeCall /\ CdpOpen
  \/ \E ok \in BOOLEAN : BeforeCall /\ CdpRespondCreate(ok)
  \/ \E sc \in ScriptIds : BeforeCall /\ CdpScriptParsed(sc, TRUE)
  \/ \E sc \in ScriptIds, o \in {"ok", "parseError"}, m \in PositionMaps :
       BeforeCall /\ SourceMapLoaded(sc, o, m)
  \/ \E ev \in StackEvents : BeforeCall /\ CdpPaused(ev)
  \/ \E a \in BOOLEAN : BeforeCall /\ GetCallStack(a)
  \/ \E sc \in ScriptIds, l \in 1..MaxLine, c \in Columns :
       BeforeCall /\ GetOriginalLocation(sc, l, c)

SpecStack == Init /\ [][NextStack]_vars

\* one session of the CDP stack and the events of its target
NextCdpEvents ==
  \/ CreateSession("ws://localhost:9229/t")
  \/ CdpOpen
  \/ \E ok \in BOOLEAN : CdpRespondCreate(ok)
  \/ CdpDisconnect
  \/ \E ev \in PausedEvents : CdpPaused(ev)
  \/ \E ev \in PausedEvents : CdpPausedAgain(ev)
  \/ CdpResumed

SpecCdpEvents == Init /\ [][NextCdpEvents]_vars

\* connect_debugger of the CDP stack with every kind of URL: createSession
\* and its handshake
NextAdmit ==
  \/ \E u \in Urls : CreateSession(u)
  \/ CdpOpen
  \/ CdpConnectFail
  \/ \E ok \in BOOLEAN : CdpRespondCreate(ok)
  \/ CdpDisconnect
  \/ CdpPaused(PlainPause)
  \/ CdpResumed

SpecAdmit == Init /\ [][NextAdmit]_vars

(* ============================== claims ================================= *)
Allocated(c) == {c.wire[i].id : i \in 1..Len(c.wire)}
Outcomes == {"result", PROTOCOL_ERROR, TIMEOUT, CONNECTION_FAILED}

\* C1: every command sent through sendCommand has its completion signalled
\* exactly once: while it is pending (and its timeout armed) nothing has been
\* signalled, once it has left the pending table exactly one of result,
\* protocol error, timeout, connection-lost has been signalled, and no timer
\* is left that could signal a second outcome.
C1_SignalledExactlyOnce ==
  \A s \in WsIds : \A id \in Allocated(wsClient[s]) :
    LET c == wsClient[s] IN
    /\ Len(c.signals[id]) <= 1
    /\ \A i \in 1..Len(c.signals[id]) : c.signals[id][i] \in Outcomes
    /\ id \in c.pendingCommands => c.signals[id] = <<>> /\ id \in c.timers
    /\ id \notin c.pendingCommands => Len(c.signals[id]) = 1 /\ id \notin c.timers

\* a command timed out, its late response was discarded, another command got
\* its result and a third was failed by closure
C1_Witness ==
  \E a, b, d \in CmdIds :
    /\ wsClient[1].signals[a] = <<TIMEOUT>> /\ a \in wsClient[1].answered
    /\ wsClient[1].signals[b] = <<"result">>
    /\ wsClient[1].signals[d] = <<CONNECTION_FAILED>>

\* C2: a session is in PAUSED iff its paused snapshot is present (stated for
\* the session once createSession has installed it).
C2_PausedIffSnapshot ==
  Sid \in sessions => (session.state = PAUSED <=> session.pausedState # 0)

\* C3: every change of the session's state is a transition of the state table.
StateTable ==
  {<<"none", CONNECTING>>, <<CONNECTING, CONNECTED>>, <<CONNECTED, PAUSED>>,
   <<RUNNING, PAUSED>>, <<CONNECTED, RUNNING>>, <<PAUSED, RUNNING>>}
  \cup {<<from, DISCONNECTED>> : from \in LiveStates \cup {CONNECTING}}
C3_OnlyTableTransitions ==
  [][session'.state # session.state => <<session.state, session'.state>> \in StateTable]_vars

\* C4: when the transport of a session closes, every command pending at that
\* moment fails with CONNECTION_FAILED, the pending table is empty and the
\* state is DISCONNECTED afterwards; after closure no command gets a further
\* outcome (none is left to fail by timeout) and none becomes pending.
C4_ClosureFailsPending ==
  [][\A s \in WsIds :
       /\ (wsClient[s].readyState # "CLOSED" /\ wsClient'[s].readyState = "CLOSED") =>
            /\ \A id \in wsClient[s].pendingCommands :
                 wsClient'[s].signals[id] = <<CONNECTION_FAILED>>
            /\ wsClient'[s].pendingCommands = {}
            /\ wsClient'[s].timers = {}
            /\ debugSession'[s].state = DISCONNECTED
       /\ wsClient[s].readyState = "CLOSED" =>
            /\ wsClient'[s].signals = wsClient[s].signals
            /\ wsClient'[s].pendingCommands = {}
            /\ debugSession'[s].state = DISCONNECTED]_vars

\* the transport closed with two commands pending, both failed with
\* CONNECTION_FAILED
C4_Witness ==
  /\ wsClient[1].readyState = "CLOSED"
  /\ debugSession[1].state = DISCONNECTED
  /\ \E a, b \in CmdIds : a # b /\ wsClient[1].signals[a] = <<CONNECTION_FAILED>>
                                /\ wsClient[1].signals[b] = <<CONNECTION_FAILED>>

\* C5: the number of sessions installed in the registry never exceeds the
\* configured maximum concurrent session count.
C5_CapNeverExceeded == Cardinality(debugSessions) <= maxConcurrentSessions

\* C6: DISCONNECTED is terminal: the step in which the transport closes under
\* the broker leaves the session DISCONNECTED whatever operations were waiting
\* on it, once the state is DISCONNECTED no step changes it, and no further
\* connection is opened for the session.
TransportLost ==
  cdpClient.transport = "open" /\ cdpClient'.transport = "closed" /\ cdpClient'.client
C6_DisconnectedTerminal ==
  [][(session.state = DISCONNECTED \/ TransportLost) =>
       session'.state = DISCONNECTED /\ cdpClient'.attempts = cdpClient.attempts]_vars

\* the transport closed while resume awaited Runtime.runIfWaitingForDebugger:
\* the call failed and the state is DISCONNECTED
C6_Witness ==
  /\ session.state = DISCONNECTED
  /\ \E k \in 1..Len(calls) : calls[k].op = "resume" /\ calls[k].result = "Error"
  /\ \E i \in 1..Len(sent) : sent[i].method = "Runtime.runIfWaitingForDebugger"

\* C7: the command ids one correlator allocates start at 1 and strictly
\* increase in allocation order, so no id is given to two commands.
C7_IdsIncrease ==
  \A s \in WsIds :
    LET w == wsClient[s].wire IN
    /\ Len(w) > 0 => w[1].id = 1
    /\ \A i, j \in 1..Len(w) : i < j => w[i].id < w[j].id

\* ids were allocated after an earlier command timed out and another was
\* answered
C7_Witness ==
  /\ Len(wsClient[1].wire) = MaxCmds
  /\ \E a, b \in 1..(MaxCmds - 1) :
       /\ wsClient[1].signals[a] = <<TIMEOUT>>
       /\ wsClient[1].signals[b] \in {<<"result">>, <<PROTOCOL_ERROR>>}

\* C8: createSession issues Debugger.enable and then Runtime.enable, installs
\* the session (state CONNECTED) only after both are acknowledged, a failed
\* createSession fails with CONNECTION_FAILED and its session is not in the
\* registry, and no registry entry is in state CONNECTING.
C8_Handshake ==
  [][/\ \A i \in 1..Len(sent') :
          /\ sent'[i].method = "Debugger.enable" => i = 1
          /\ sent'[i].method = "Runtime.enable" =>
               i = 2 /\ sent'[1].method = "Debugger.enable"
                     /\ creating'.acked[1] = "Debugger.enable"
     /\ (Sid \notin sessions /\ Sid \in sessions') =>
          /\ creating'.acked = <<"Debugger.enable", "Runtime.enable">>
          /\ session'.state = CONNECTED
          /\ creating'.result = "ok"
     /\ Sid \in sessions' => session'.state # CONNECTING /\ creating'.result = "ok"
     /\ (creating'.pc = "done" /\ creating'.result # "ok") =>
          creating'.result = CONNECTION_FAILED /\ Sid \notin sessions'
     /\ creating.result = CONNECTION_FAILED => creating'.result = CONNECTION_FAILED]_vars

\* the session is installed after a handshake during which a paused event
\* arrived
C8_Witness ==
  /\ Sid \in sessions
  /\ creating.acked = <<"Debugger.enable", "Runtime.enable">>
  /\ Len(sent) = 2 /\ cdpClient.pauses > 0

\* C9: connect_debugger opens a connection only for a well-formed URL whose
\* scheme is ws or wss and whose host is in the allow-list (or with the
\* confirmation for remote hosts configured off); any other URL fails
\* INVALID_PARAMETERS with no connection attempt.
Admissible(u) ==
  /\ ParseUrl(u).ok
  /\ ParseUrl(u).protocol \in {"ws:", "wss:"}
  /\ (ParseUrl(u).hostname \in allowedHosts \/ ~requireConfirmationForRemote)
C9_AdmissionPolicy ==
  creating.pc # "none" =>
    IF Admissible(creating.url) THEN TRUE
    ELSE cdpClient.attempts = 0 /\ creating.result = INVALID_PARAMETERS

\* C10: no command carrying a call-frame id or a scope's remote-object id is
\* sent while the session's state is not PAUSED, nor with an id that is not
\* of the current paused snapshot.
FrameMethods ==
  {"Debugger.evaluateOnCallFrame", "Debugger.setVariableValue", "Runtime.getProperties"}
C10_FrameIdsOnlyInCurrentPause ==
  [][Len(sent') > Len(sent) =>
       LET m == sent'[Len(sent')] IN
       m.method \in FrameMethods =>
         /\ session.state = PAUSED
         /\ m.id \in FrameIds(session.pausedState)]_vars

\* C11: resume on a session of the registry: found in PAUSED it issues
\* Debugger.resume, found in CONNECTED it issues
\* Runtime.runIfWaitingForDebugger (and is not refused), found in any other
\* state it fails SESSION_INVALID_STATE.  Stated on the latest operation of
\* each session of the WebSocket stack.
C11_ResumeByState ==
  \A s \in WsIds :
    LET d == debugSession[s] IN
    (d.op = "Debugger.resume" /\ d.opResult # SESSION_NOT_FOUND) =>
      /\ d.opState = PAUSED => d.opResult # SESSION_INVALID_STATE
      /\ d.opState = CONNECTED => d.opResult # SESSION_INVALID_STATE
      /\ d.opState \notin {PAUSED, CONNECTED} => d.opResult = SESSION_INVALID_STATE

\* C12: pause is accepted exactly in CONNECTED or RUNNING, and stepOver,
\* stepInto, stepOut, getCallStack, getScopeVariables, setVariableValue and
\* evaluation on a call frame exactly in PAUSED; invoked on a session of the
\* registry in any other state the operation fails SESSION_INVALID_STATE,
\* sends nothing and changes neither the session nor the registry.
PausedOps ==
  StepMethods \cup {"getCallStack", "getScopeVariables", "setVariableValue",
                    "evaluateOnCallFrame"}
C12_StateGuards ==
  [][(Len(calls') > Len(calls) /\ Sid \in sessions) =>
       LET c == calls'[Len(calls')]
           refused == /\ c.result = SESSION_INVALID_STATE
                      /\ sent' = sent
                      /\ session' = session
                      /\ sessions' = sessions
       IN /\ c.op = "pause" =>
               IF session.state \in {CONNECTED, RUNNING}
               THEN c.result # SESSION_INVALID_STATE ELSE refused
          /\ c.op \in PausedOps =>
               IF session.state = PAUSED
               THEN c.result # SESSION_INVALID_STATE ELSE refused]_vars

\* a step was refused in CONNECTED although a snapshot is stored, and the
\* session is as it was
C12_Witness ==
  /\ session.state = CONNECTED /\ session.pausedState # 0
  /\ \E k \in 1..Len(calls) :
       calls[k].op \in StepMethods /\ calls[k].result = SESSION_INVALID_STATE

\* C13: once the session's transport has closed nothing more is written to
\* it, and every operation invoked from then on that would issue a command
\* (every operation but getCallStack and destroySession) fails at once.
CommandOps ==
  {"resume", "pause", "evaluate", "evaluateOnCallFrame", "getScopeVariables",
   "setVariableValue"} \cup StepMethods
C13_ClosedTransportRefuses ==
  [][cdpClient.transport = "closed" =>
       /\ sent' = sent
       /\ Len(calls') > Len(calls) =>
            LET c == calls'[Len(calls')] IN
            c.op \in CommandOps => c.pc = "done" /\ c.result # "ok"]_vars

\* the transport closed under a connected session and the next operation, an
\* evaluation without a call frame, failed with nothing written
C13_Witness ==
  /\ cdpClient.transport = "closed" /\ session.state = DISCONNECTED
  /\ Sid \in sessions
  /\ \E k \in 1..Len(calls) : calls[k].op = "evaluate" /\ calls[k].result = "Error"
  /\ Len(sent) = 2

\* C14: the ids in the breakpoint table of a session of the registry are a
\* subset of the breakpoint ids the target holds for the connection.
C14_TableSubsetOfTarget ==
  \A s \in WsIds :
    s \in debugSessions => debugSession[s].bpIds \subseteq wsClient[s].tgtBps

\* C15: when removeBreakpoint(b) succeeds b is absent from the breakpoint
\* table (what listBreakpoints returns), and an id absent from the table
\* enters it only in the step in which a setBreakpoint is answered with that
\* id; so a removed id stays absent until the target issues it again.
SetAnswered(b) ==
  \E k \in 1..Len(calls) :
    /\ calls[k].pc = "Debugger.setBreakpointByUrl" /\ calls[k].frame = b
    /\ calls'[k].result = "ok"
RemoveAnswered(b) ==
  \E k \in 1..Len(calls) :
    /\ calls[k].pc = "Debugger.removeBreakpoint" /\ calls[k].frame = b
    /\ calls'[k].result = "ok"
C15_RemovedStaysAbsent ==
  [][\A b \in BpIds :
       /\ RemoveAnswered(b) => b \notin session'.bpIds
       /\ (b \notin session.bpIds /\ b \in session'.bpIds) => SetAnswered(b)]_vars

\* setBreakpoint then removeBreakpoint of the returned id succeeded, events
\* for breakpoints arrived, and the table is empty
C15_Witness ==
  /\ Len(calls) >= 2
  /\ calls[1].op = "setBreakpoint" /\ calls[1].result = "ok"
  /\ calls[2].op = "removeBreakpoint" /\ calls[2].result = "ok"
  /\ cdpClient.resolves = MaxResolved
  /\ session.bpIds = {}

\* C16: a Debugger.breakpointResolved event for an id of the breakpoint
\* table appends its location to that record's locations, keeping the earlier
\* ones, and changes no other record; an event for an id that is not in the
\* table changes no record.  Stated on the sessions of the WebSocket stack.
C16_ResolvedAppends ==
  [][\A s \in WsIds :
       wsClient'[s].resolves > wsClient[s].resolves =>
         LET d == debugSession[s]
             e == debugSession'[s]
         IN /\ e.bpIds = d.bpIds
            /\ \E b \in BpIds, loc \in Locs :
                 /\ \A o \in BpIds \ {b} : e.bpLocs[o] = d.bpLocs[o]
                 /\ e.bpLocs[b] = IF b \in d.bpIds THEN Append(d.bpLocs[b], loc)
                                  ELSE d.bpLocs[b]]_vars

\* C17: each Debugger.paused event leaves the snapshot equal to the event's
\* payload (its call frames and its other fields, an absent optional field
\* absent), the state PAUSED, and the executionPaused handler called exactly
\* once more, with the event's reason.
C17_PausedReplacesSnapshot ==
  [][cdpClient'.pauses > cdpClient.pauses =>
       /\ session'.pausedState = cdpClient'.pauses
       /\ session'.pausedData = cdpClient'.lastPaused
       /\ session'.state = PAUSED
       /\ session'.notified = Append(session.notified, cdpClient'.lastPaused.reason)]_vars

\* a pause with hit breakpoints was followed, with no resumed event in
\* between, by a pause whose event carries none
C17_Witness ==
  /\ cdpClient.pauses = 2
  /\ cdpClient.tgtPaused
  /\ session.notified = <<"breakpoint", "other">>
  /\ session.pausedData = PlainPause
  /\ session.state = PAUSED

\* C18: once a disconnect_debugger of the session has succeeded, the session
\* is not in the registry (list_sessions does not show it), and every
\* operation called on its id from then on, a second disconnect_debugger
\* included, fails at once with SESSION_NOT_FOUND
Destroyed ==
  \E k \in 1..Len(calls) : calls[k].op = "destroySession" /\ calls[k].result = "ok"
C18_DestroyedStaysUnknown ==
  [][/\ Destroyed' => Sid \notin sessions'
     /\ Destroyed /\ Len(calls') > Len(calls) =>
          /\ calls'[Len(calls')].pc = "done"
          /\ calls'[Len(calls')].result = SESSION_NOT_FOUND]_vars

\* the first disconnect_debugger awaited close() on an installed session and
\* succeeded, and a second one was called after it
C18_Witness ==
  /\ Len(calls) = 2
  /\ calls[1].op = "destroySession" /\ calls[1].result = "ok"
  /\ calls[2].op = "destroySession" /\ calls[2].result = SESSION_NOT_FOUND
  /\ cdpClient.transport = "closed"
  /\ session.state # CONNECTING

\* C19: every command sent on a connected session eventually has a terminal
\* outcome signalled (result, protocol error, timeout or connection lost),
\* whether or not the target ever answers it
C19_EveryCommandSettles ==
  \A id \in CmdIds :
    (id \in Allocated(wsClient[1])) ~>
      (/\ id \notin wsClient[1].pendingCommands
       /\ Len(wsClient[1].signals[id]) = 1
       /\ wsClient[1].signals[id][1] \in Outcomes)

\* a command the target never answered was ended by its timeout, on a
\* transport that is still open
C19_Witness ==
  \E id \in CmdIds :
    /\ id \in Allocated(wsClient[1])
    /\ id \notin wsClient[1].answered
    /\ wsClient[1].signals[id] = <<TIMEOUT>>
    /\ wsClient[1].readyState = "OPEN"

\* C20: when the timeout of a command fires, the command is failed with
\* TIMEOUT and leaves the pending table; a response for it that arrives
\* afterwards changes no pending entry, no timer, no signalled outcome, no
\* connect promise and nothing of the session or the registry
C20_TimeoutThenLateResponseDiscarded ==
  [][\A id \in CmdIds :
       LET c == wsClient[1]
           c2 == wsClient'[1]
       IN /\ (/\ id \in c.timers /\ id \notin c2.timers
              /\ c2.answered = c.answered /\ c2.readyState = c.readyState)
             => /\ c2.signals[id] = <<TIMEOUT>>
                /\ id \notin c2.pendingCommands
                /\ c2.pendingCommands = c.pendingCommands \ {id}
          /\ (/\ c.signals[id] = <<TIMEOUT>>
              /\ id \notin c.answered /\ id \in c2.answered)
             => /\ c2.pendingCommands = c.pendingCommands
                /\ c2.timers = c.timers
                /\ c2.signals = c.signals
                /\ c2.promise = c.promise
                /\ c2.isConnected = c.isConnected
                /\ debugSession' = debugSession
                /\ debugSessions' = debugSessions]_vars

\* a command timed out and its response arrived afterwards, while a later
\* command was still pending
C20_Witness ==
  \E a, b \in CmdIds :
    /\ wsClient[1].signals[a] = <<TIMEOUT>>
    /\ a \in wsClient[1].answered
    /\ b \in wsClient[1].pendingCommands
    /\ b \in wsClient[1].timers
    /\ debugSession[1].opResult = "pending"

\* C21: a remove_breakpoint that names an id the session's breakpoint table
\* does not hold fails with BREAKPOINT_NOT_FOUND, writes no
\* Debugger.removeBreakpoint to the target and leaves the table as it was
C21_UnknownBreakpointRefused ==
  [][\A b \in BpIds :
       LET c == wsClient[1]
           c2 == wsClient'[1]
       IN (/\ Len(c2.wire) = Len(c.wire) + 1
           /\ c2.wire[Len(c2.wire)].method = "Debugger.removeBreakpoint"
           /\ c2.arg[c2.wire[Len(c2.wire)].id] = b)
          => b \in debugSession[1].bpIds]_vars

\* C23: the argument of Debugger.setVariableValue is {objectId} when the
\* evaluated remote object has an object id, otherwise {unserializableValue}
\* when it has an unserializable form, otherwise {value} (on the wire the
\* empty object when the remote object has no value either), for every
\* combination of the three fields
ClaimedArgument(r) ==
  IF r.objectId THEN "objectId"
  ELSE IF r.unserializableValue THEN "unserializableValue"
  ELSE IF r.value THEN "value"
  ELSE "none"
C23_CallArgumentOrder ==
  \A k \in 1..Len(calls) :
    \A i \in 1..Len(sent) :
      (calls[k].op = "setVariableValue" /\ sent[i].method = "Debugger.setVariableValue")
        => sent[i].arg = ClaimedArgument(calls[k].remote)

\* C22: when the evaluation of set_variable_value's new-value expression
\* comes back with exception details, Debugger.setVariableValue is not
\* issued and the call fails with PROTOCOL_ERROR
C22_ExceptionStopsSetVariable ==
  [][\A id \in CmdIds :
       (/\ id \in wsClient[1].pendingCommands
        /\ id \notin wsClient[1].threw
        /\ id \in wsClient'[1].threw)
       => /\ wsClient'[1].wire = wsClient[1].wire
          /\ debugSession'[1].opResult = PROTOCOL_ERROR]_vars

\* C24: on a paused session, get_scope_variables fails INVALID_PARAMETERS
\* and sends nothing when the call-frame id is not a frame of the current
\* snapshot or the scope index is not one of that frame's scope chain;
\* otherwise it sends Runtime.getProperties for the object of exactly that
\* scope of that frame
ScopeIndexes(n) == IF n = 0 THEN {} ELSE {0}
C24_ScopeLookup ==
  [][(/\ Len(calls') = Len(calls) + 1
      /\ calls'[Len(calls')].op = "getScopeVariables"
      /\ Sid \in sessions /\ session.state = PAUSED /\ session.pausedState # 0
      /\ cdpClient.connected /\ cdpClient.client)
     => LET c == calls'[Len(calls')]
            n == session.pausedState
        IN IF c.input \notin FrameIds(n) \/ c.scope \notin ScopeIndexes(n)
           THEN /\ c.pc = "done" /\ c.result = INVALID_PARAMETERS
                /\ sent' = sent
           ELSE /\ c.pc = "Runtime.getProperties"
                /\ sent' = Append(sent, [method |-> "Runtime.getProperties",
                                         id |-> ScopeObjectId(c.input, c.scope),
                                         arg |-> "none"])]_vars

\* during the second pause a call named the frame of the first pause and was
\* refused
C24_Witness ==
  /\ session.state = PAUSED /\ session.pausedState = 2
  /\ Len(calls) = 1
  /\ calls[1].op = "getScopeVariables" /\ calls[1].input = 1 /\ calls[1].scope = 0
  /\ calls[1].result = INVALID_PARAMETERS
  /\ sent[Len(sent)].method # "Runtime.getProperties"

\* C25: evaluate_expression with a call-frame id is refused unless the
\* session is PAUSED and then issues Debugger.evaluateOnCallFrame on that
\* frame; without one it issues Runtime.evaluate in every live state; a
\* response that carries exception details ends either call successfully
C25_EvaluateRouting ==
  [][/\ (/\ Len(calls') = Len(calls) + 1
         /\ calls'[Len(calls')].op = "evaluateOnCallFrame"
         /\ Sid \in sessions /\ cdpClient.connected /\ cdpClient.client)
        => LET c == calls'[Len(calls')] IN
           IF session.state = PAUSED /\ session.pausedState # 0
           THEN /\ c.pc = "Debugger.evaluateOnCallFrame"
                /\ sent' = Append(sent, [method |-> "Debugger.evaluateOnCallFrame",
                                         id |-> c.input, arg |-> "none"])
           ELSE /\ c.pc = "done" /\ c.result = SESSION_INVALID_STATE
                /\ sent' = sent
     /\ (/\ Len(calls') = Len(calls) + 1
         /\ calls'[Len(calls')].op = "evaluate"
         /\ Sid \in sessions /\ cdpClient.connected /\ cdpClient.client
         /\ session.state \in {CONNECTED, RUNNING, PAUSED})
        => /\ calls'[Len(calls')].pc = "Runtime.evaluate"
           /\ sent' = Append(sent, [method |-> "Runtime.evaluate", id |-> 0,
                                    arg |-> "none"])
     /\ \A k \in 1..Len(calls) :
          (/\ calls[k].op \in {"evaluate", "evaluateOnCallFrame"}
           /\ calls[k].pc \in EvalMethods
           /\ calls'[k].exc)
          => calls'[k].pc = "done" /\ calls'[k].result = "ok"]_vars

\* an evaluation on a call frame of the current pause was answered with
\* exception details and returned
C25_Witness ==
  /\ Len(calls) = 1
  /\ calls[1].op = "evaluateOnCallFrame" /\ calls[1].input = 1
  /\ calls[1].exc /\ calls[1].result = "ok"
  /\ session.state = PAUSED
  /\ \E i \in 1..Len(sent) : sent[i] = [method |-> "Debugger.evaluateOnCallFrame",
                                        id |-> 1, arg |-> "none"]

\* C26: every successful set_breakpoint adds one record to the breakpoint
\* table, so that, as long as nothing was removed, the table has as many
\* records as there were successful calls (two calls with the same url and
\* line leave two records)
C26_OneRecordPerSuccess ==
  (\A k \in 1..Len(calls) : calls[k].op # "removeBreakpoint")
    => Cardinality(session.bpIds) =
         Cardinality({k \in 1..Len(calls) :
                        calls[k].op = "setBreakpoint" /\ calls[k].result = "ok"})

\* C27: a disconnect of a session that is in the registry when it is called
\* ends successfully, whatever happens to the transport meanwhile; no error
\* of the closing reaches the caller (a call on an id the registry does not
\* hold is refused with SESSION_NOT_FOUND)
C27_DisconnectNeverFails ==
  debugSession[1].op = "disconnect"
    => debugSession[1].opResult \in {"pending", "ok", SESSION_NOT_FOUND}

\* C28: get_script_source of a known script returns the original content
\* (is_original = true), sending nothing, exactly when prefer_original is
\* set, a source map is loaded for the script and the map holds content for
\* the chosen original source (the first declared one when none is named);
\* in every other case it asks the target with Debugger.getScriptSource and
\* returns that with is_original = false; an unknown script id fails with
\* SCRIPT_NOT_FOUND and nothing is sent
HoldsContent(m, url) ==
  /\ m # NoMap /\ m.declared /\ m.content = "text"
  /\ url \in {"default", "a"}
C28_OriginalOrGenerated ==
  [][/\ (/\ Len(calls') = Len(calls) + 1
         /\ calls'[Len(calls')].op = "getScriptSource"
         /\ Sid \in sessions /\ cdpClient.connected /\ cdpClient.client)
        => LET c == calls'[Len(calls')]
               sc == c.input
           IN IF sc \notin cdpClient.scripts
              THEN c.pc = "done" /\ c.result = SCRIPT_NOT_FOUND /\ sent' = sent
              ELSE IF c.opt[1] /\ HoldsContent(session.maps[sc], c.opt[2])
              THEN /\ c.pc = "done" /\ c.result = "ok" /\ c.ret = "original"
                   /\ sent' = sent
              ELSE /\ c.pc = "Debugger.getScriptSource"
                   /\ sent' = Append(sent, [method |-> "Debugger.getScriptSource",
                                            id |-> sc, arg |-> "none"])
     /\ \A k \in 1..Len(calls) :
          (calls[k].pc = "Debugger.getScriptSource" /\ calls'[k].result = "ok")
            => calls'[k].ret = "generated"]_vars

\* C29: get_call_stack on a paused session returns one enriched frame per
\* frame of the paused snapshot, in the snapshot's order, each with the
\* generated location as the target sent it and with an original location
\* exactly when the owning script's map has a mapping for the frame's line;
\* the async stack trace is left out with include_async = false and is the
\* snapshot's with include_async = true
Resolves(se, f) ==
  se.maps[f.script] # NoMap /\ (f.line + 1) \in se.maps[f.script].mapped
C29_CallStackEnriched ==
  [][(/\ Len(calls') = Len(calls) + 1
      /\ calls'[Len(calls')].op = "getCallStack"
      /\ Sid \in sessions /\ IsPaused(session))
     => LET c == calls'[Len(calls')]
            snap == session.pausedData
        IN /\ c.pc = "done" /\ c.result = "ok"
           /\ Len(c.stack.callFrames) = Len(snap.frames)
           /\ \A i \in 1..Len(snap.frames) :
                /\ c.stack.callFrames[i].generatedLocation = snap.frames[i]
                /\ (c.stack.callFrames[i].originalLocation # NoLoc)
                     <=> Resolves(session, snap.frames[i])
           /\ c.stack.asyncStackTrace =
                (IF c.opt[1] THEN snap.async ELSE "undefined")]_vars

\* a finished get_call_stack with include_async of a snapshot of two frames
\* at different locations, the inner one resolved by the map, the outer not
C29_Witness ==
  \E k \in 1..Len(calls) :
    /\ calls[k].op = "getCallStack" /\ calls[k].result = "ok"
    /\ calls[k].opt[1]
    /\ calls[k].stack.asyncStackTrace = "trace"
    /\ Len(calls[k].stack.callFrames) = 2
    /\ calls[k].stack.callFrames[1].generatedLocation
         # calls[k].stack.callFrames[2].generatedLocation
    /\ calls[k].stack.callFrames[1].originalLocation # NoLoc
    /\ calls[k].stack.callFrames[2].originalLocation = NoLoc

\* C30: every query the broker hands to a source map carries a 1-based
\* line: get_call_stack asks for each frame at the frame's script, its wire
\* line plus one and its column; get_original_location asks at the caller's
\* line and column as given; and the original line handed back is the line
\* the map answers for that query, unchanged
C30_OneBasedQueries ==
  [][(/\ Len(calls') = Len(calls) + 1
      /\ Sid \in sessions)
     => LET c == calls'[Len(calls')]
            snap == session.pausedData
        IN /\ (c.op = "getCallStack" /\ IsPaused(session))
                => /\ Len(c.queries) = Len(snap.frames)
                   /\ c.result = "ok"
                   /\ \A i \in 1..Len(snap.frames) :
                        /\ c.queries[i] = <<snap.frames[i].script,
                                            snap.frames[i].line + 1,
                                            snap.frames[i].col>>
                        /\ c.queries[i][2] >= 1
                        /\ c.stack.callFrames[i].originalLocation =
                             getOriginalLocation(session.maps[snap.frames[i].script],
                                                 snap.frames[i].line + 1,
                                                 snap.frames[i].col)
           /\ (c.op = "getOriginalLocation" /\ session.maps[c.input] # NoMap)
                => /\ c.queries = <<<<c.input, c.opt[1], c.opt[2]>>>>
                   /\ c.result = "ok"
                   /\ c.stack.hasSourceMap
                   /\ c.stack.original =
                        originalPositionFor(session.maps[c.input], c.opt[1], c.opt[2])]_vars

\* a get_call_stack whose frame at wire line 0 was resolved through the
\* map's line 1 while the map has nothing for the line after it, and a
\* get_original_location of a mapped line answered with the map's line
C30_WitnessStack ==
  \E k \in 1..Len(calls) :
    /\ calls[k].op = "getCallStack" /\ calls[k].result = "ok"
    /\ calls[k].stack.callFrames[1].generatedLocation.line = 0
    /\ calls[k].queries[1][2] = 1
    /\ session.maps[calls[k].queries[1][1]].mapped = {1}
    /\ calls[k].stack.callFrames[1].originalLocation.line = 1 + MaxLine
C30_WitnessLocation ==
  \E k \in 1..Len(calls) :
    /\ calls[k].op = "getOriginalLocation" /\ calls[k].result = "ok"
    /\ calls[k].opt[1] = MaxLine
    /\ calls[k].stack.original.line = MaxLine + MaxLine
C30_Witness == C30_WitnessStack \/ C30_WitnessLocation

\* C31: list_scripts without include_internal returns exactly the cached
\* scripts whose url is not empty, begins neither with node: nor with
\* internal/ and has no node_modules in it; with include_internal it
\* returns every cached script
UserUrl(url) ==
  /\ url # <<>>
  /\ url[1] \notin {"node:", "internal/"}
  /\ \A i \in 1..Len(url) : url[i] # "node_modules"
C31_ListScriptsFilter ==
  [][(/\ Len(calls') = Len(calls) + 1
      /\ calls'[Len(calls')].op = "listScripts"
      /\ Sid \in sessions)
     => LET c == calls'[Len(calls')]
        IN /\ c.pc = "done" /\ c.result = "ok"
           /\ c.list = IF c.opt[1] THEN cdpClient.scripts
                       ELSE {sc \in cdpClient.scripts : UserUrl(cdpClient.urls[sc])}]_vars

\* a list_scripts without include_internal that left out a cached script
\* whose url has node_modules after its beginning
C31_Witness ==
  \E k \in 1..Len(calls) :
    /\ calls[k].op = "listScripts" /\ calls[k].result = "ok"
    /\ ~calls[k].opt[1]
    /\ calls[k].list = {}
    /\ \E sc \in cdpClient.scripts : cdpClient.urls[sc] = <<"app", "node_modules">>

\* C32: when the load of a script's source map fails (data URL of another
\* form, nothing fetched, fetch error, parse error) the load returns false
\* and raises nothing, no map is registered for the script, the script
\* stays in the script table and the session's state and snapshot are
\* what they were
C32_FailedLoadSwallowed ==
  [][\A sc \in ScriptIds :
       (/\ sc \in session.loading /\ sc \notin session'.loading
        /\ session'.loads[sc].outcome \in LoadFailures)
       => /\ session'.loads[sc].returned = "false"
          /\ session'.maps[sc] = NoMap
          /\ session'.maps = session.maps
          /\ sc \in cdpClient'.scripts /\ cdpClient'.scripts = cdpClient.scripts
          /\ session'.state = session.state
          /\ session'.pausedState = session.pausedState
          /\ session'.pausedData = session.pausedData]_vars

\* the load for a cached script ended with a parse error while the session
\* was paused; the session is still paused and the script has no map
C32_Witness ==
  \E sc \in cdpClient.scripts :
    /\ session.loads[sc] = [outcome |-> "parseError", returned |-> "false"]
    /\ session.maps[sc] = NoMap
    /\ session.state = PAUSED

\* C33: once a destroy_session has completed, the session's source-map
\* engine holds no consumer and every consumer it constructed has been
\* destroyed, also when a load that began before the teardown ends after it
\* and when a script was parsed, and its map loaded, a second time
C33_NoConsumerAfterDestroy ==
  (\E k \in 1..Len(calls) :
     calls[k].op = "destroySession" /\ calls[k].pc = "done" /\ calls[k].result = "ok")
    => /\ \A sc \in ScriptIds : session.maps[sc] = NoMap
       /\ session.live = 0

\* C34: a paused, resumed or breakpointResolved event that arrives while a
\* source-map load is in flight is applied to the session in the step it
\* arrives: the paused event installs its snapshot and PAUSED, the resumed
\* event RUNNING with no snapshot, the breakpointResolved event its
\* location in the record of a known breakpoint; the load stays in flight
C34_EventsNotDelayedByLoad ==
  [][session.loading # {} =>
       /\ (cdpClient'.pauses = cdpClient.pauses + 1)
            => /\ session'.state = PAUSED
               /\ session'.pausedData = cdpClient'.lastPaused
               /\ session'.pausedState = cdpClient'.pauses
               /\ session'.loading = session.loading
       /\ (cdpClient.tgtPaused /\ ~cdpClient'.tgtPaused)
            => /\ session'.state = RUNNING
               /\ session'.pausedData = NoData /\ session'.pausedState = 0
               /\ session'.loading = session.loading
       /\ (cdpClient'.resolves = cdpClient.resolves + 1 /\ 1 \in session.bpIds)
            => /\ \E loc \in Locs :
                    session'.bpLocs[1] = Append(session.bpLocs[1], loc)
               /\ session'.loading = session.loading]_vars

\* the session is paused, its breakpoint has a resolved location, and the
\* load is still in flight (in SpecLoadEvents the target's events arrive
\* only during a load)
C34_Witness ==
  /\ session.loading # {}
  /\ session.state = PAUSED /\ session.pausedData = PlainPause
  /\ 1 \in session.bpIds /\ Len(session.bpLocs[1]) > 0
  /\ cdpClient.resolves > 0

\* C35: a frame that is not valid JSON or does not decode to a message, and
\* a notification of a method other than the four handled ones, changes
\* nothing of the client (pending commands, timers, connection) and nothing
\* of the session (state, snapshot, breakpoint table)
C35_UnusableFrameDropped ==
  [][\A s \in WsIds :
       wsClient'[s].dropped = wsClient[s].dropped + 1
         => /\ wsClient'[s] = [wsClient[s] EXCEPT !.dropped = @ + 1]
            /\ debugSession' = debugSession
            /\ debugSessions' = debugSessions]_vars

\* frames were dropped while a command was pending, and the session has
\* since been paused by a later Debugger.paused frame
C35_Witness ==
  /\ wsClient[1].dropped = MaxDropped
  /\ wsClient[1].pendingCommands # {}
  /\ debugSession[1].state = PAUSED

\* C36: resume, pause and the three steps called on a paused session do not
\* change the session's state or snapshot, neither in the step that makes
\* the call nor in the one in which the call returns; only the target's
\* events (paused, resumed, disconnect) do
ExecutionOps == {"resume", "pause"} \cup StepMethods
C36_ExecutionCallsKeepState ==
  [][(/\ cdpClient'.transport = cdpClient.transport
      /\ \E k \in 1..Len(calls') :
           /\ calls'[k].op \in ExecutionOps
           /\ IF k > Len(calls)
              THEN session.state = PAUSED
              ELSE /\ calls'[k] # calls[k]
                   /\ calls[k].pc \in {"Debugger.resume"} \cup StepMethods)
     => /\ session'.state = session.state
        /\ session'.pausedState = session.pausedState
        /\ session'.pausedData = session.pausedData]_vars

\* a resume made on the paused session has returned successfully and the
\* session is still PAUSED with its snapshot (no resumed event arrived yet)
C36_Witness ==
  \E k \in 1..Len(calls) :
    /\ calls[k].op = "resume" /\ calls[k].pc = "done" /\ calls[k].result = "ok"
    /\ session.state = PAUSED /\ session.pausedState # 0
    /\ \E i \in 1..Len(sent) : sent[i].method = "Debugger.resume"

\* C37: for a session the sessionDestroyed handler is called at most once
\* and client.close() is called at most once, also when a second
\* destroy_session starts while the first is still closing
C37_DestroyedOnce ==
  cdpClient.closes <= 1 /\ session.destroyed <= 1

\* C38: once createSession has failed, the transport of that attempt is not
\* open and no further executionPaused notification is made for the session
\* id that was never installed
C38_FailedCreateLeavesNothing ==
  [][creating.result = CONNECTION_FAILED =>
       /\ cdpClient.transport # "open"
       /\ session'.notified = session.notified]_vars

\* the commands behind setBreakpoint, removeBreakpoint and resume from
\* CONNECTED, and the step in which call k's command fails
GuardedMethods ==
  {"Debugger.setBreakpointByUrl", "Debugger.removeBreakpoint",
   "Runtime.runIfWaitingForDebugger"}
CommandFails(k) ==
  /\ calls[k].pc \in GuardedMethods
  /\ calls'[k].result = "Error"

\* C39 as stated: when the command behind setBreakpoint, removeBreakpoint or
\* resume from CONNECTED fails, the call returns the error and the step
\* leaves the breakpoint table and the state as they were
C39_FailedCommandKeepsAll ==
  [][\A k \in 1..Len(calls) : CommandFails(k) =>
       /\ session'.bpIds = session.bpIds
       /\ session'.bpLocs = session.bpLocs
       /\ session'.state = session.state]_vars

\* C39, amended: the failing call itself changes neither the breakpoint table
\* nor the state; the state differs only when the failure is a connection
\* loss, whose disconnected handler sets DISCONNECTED
C39_FailedCommandKeepsTable ==
  [][\A k \in 1..Len(calls) : CommandFails(k) =>
       /\ session'.bpIds = session.bpIds
       /\ session'.bpLocs = session.bpLocs
       /\ \/ session'.state = session.state
          \/ /\ cdpClient.transport = "open"
             /\ cdpClient'.transport = "closed"
             /\ session' = onDisconnected(session)]_vars

\* a removeBreakpoint whose command was rejected, its record still there
C39_Witness ==
  /\ cdpClient.transport = "open"
  /\ session.bpIds # {}
  /\ \E k \in 1..Len(calls) :
       calls[k].op = "removeBreakpoint" /\ calls[k].result = "Error"

\* C40: the listener of executionPaused finds the session PAUSED with that
\* event's snapshot, the listener of executionResumed finds it RUNNING with
\* no snapshot
C40_ListenerSeesEvent ==
  /\ session.seen.event = "paused" => session.seen.state = PAUSED /\ session.seen.own
  /\ session.seen.event = "resumed" => session.seen.state = RUNNING /\ session.seen.own

\* both notifications were made: the latest is executionResumed, after a pause
C40_Witness ==
  /\ session.seen.event = "resumed"
  /\ Len(session.notified) >= 1
  /\ session.state = RUNNING

====
